---- MODULE Spec2Model ----
(***************************************************************************)
(* BookSmith: the chat handler of App.tsx, the retry loop and the          *)
(* background chapter generation of GeminiService, the credential dialog   *)
(* and the saved-project store.                                            *)
(*                                                                         *)
(* The repository holds two revisions of services/geminiService.ts         *)
(* (src/unnamed/part_000 and src/unnamed/part_001).  Both are modelled:    *)
(* the variable revision is fixed by Init and every step that differs      *)
(* between the two branches on it.                                         *)
(*                                                                         *)
(* Texts are sequences of string tokens (a template literal is the         *)
(* sequence of its pieces); an error text is the set of the fragments the  *)
(* code searches for with includes() that occur in it.  An optional value  *)
(* (T | null) is the empty sequence or a one-element sequence.             *)
(***************************************************************************)
EXTENDS Integers, Sequences, FiniteSets, TLC

(* ------------------------------ bounds -------------------------------- *)

\* the user sends while the conversation holds fewer messages than this
MaxMessages == 3
\* chapters the model supplies in one run, over all its create_ebook calls
MaxChapters == 2
\* validation requests of the credential dialog in one run
MaxValidations == 2
\* projects saved in one run
MaxSaves == 2
\* milliseconds that pass in one run
MaxClock == 2

(* ------------------------- program constants -------------------------- *)

maxAttempts == 3
ChapterAttempts == 3
InterChapterDelay == 2000
RateLimitStep == 2000
GenericRetryDelay == 1500
ChapterBackoffBase == 2000
TemplateLimit == 3

Revisions == {"part_000", "part_001"}

(* ------------------------------ helpers ------------------------------- *)

Null == <<>>
Some(x) == <<x>>
Last(s) == s[Len(s)]

RECURSIVE Pow2(_)
Pow2(k) == IF k = 0 THEN 1 ELSE 2 * Pow2(k - 1)

\* obj.f of a JavaScript object: undefined when the property is absent, and
\* `${undefined}` is the text "undefined"
Field(obj, f) == IF f \in DOMAIN obj THEN obj[f] ELSE "undefined"

\* text.includes(fragment), on the lower-cased error text
Includes(text, fragment) == fragment \in text.has

ErrorText(name, fragments) == [name |-> name, has |-> fragments]
NoError == ErrorText("", {})

\* what the remote service can answer a request with when it fails
RemoteErrors ==
    { ErrorText("remote", h) : h \in
        { {}, {"429"}, {"503"}, {"403"}, {"key not valid"}, {"invalid_api_key"},
          {"403", "429"}, {"fetch failed"} } }

\* errors the code raises itself (the fragments of their lower-cased text)
MALFORMED_JSON == ErrorText("MALFORMED_JSON", {})
SAFETY_BLOCK == ErrorText("SAFETY_BLOCK", {"safety"})
EMPTY_RESPONSE == ErrorText("EMPTY_RESPONSE", {})
ServiceNotInitialized == ErrorText("Service not initialized", {})

IsRateLimit(err) == Includes(err, "429") \/ Includes(err, "503")
IsAuthError(err) == Includes(err, "403") \/ Includes(err, "key not valid")

\* String.prototype.trim on a text given as its characters
RECURSIVE TrimStart(_)
TrimStart(s) ==
    IF s # <<>> /\ Head(s) = " " THEN TrimStart(Tail(s)) ELSE s

RECURSIVE TrimEnd(_)
TrimEnd(s) ==
    IF s # <<>> /\ Last(s) = " " THEN TrimEnd(SubSeq(s, 1, Len(s) - 1)) ELSE s

Trim(s) == TrimEnd(TrimStart(s))

\* a displayed text: its tokens and, where one is quoted in it, an error text
Text(tokens) == [tokens |-> tokens, quoted |-> NoError]
Quoting(tokens, err) == [tokens |-> tokens, quoted |-> err]

(* ------------------------------- state -------------------------------- *)

VARIABLES
    revision,          \* which geminiService.ts the build holds
    clock,             \* Date.now()
    \* App.tsx
    apiKey, geminiServiceRef, isKeyModalOpen, isLoading, currentMode,
    generatedBook, marketData, messages, savedProjects,
    \* the running handleSendMessage and the sendMessage it awaits
    pc, message, attempts, lastError, chat, isActionTaken, responseText,
    result,            \* what sendMessage resolved or rejected with
    log,               \* history: what this invocation of sendMessage did
    sends,             \* history: invocations of sendMessage so far
    handling,          \* history: the last call of handleSendMessage
    \* background chapter generation, one entry per create_ebook call
    tasks,
    \* ApiKeyModal.tsx
    key, status, errorMessage,
    validations,       \* validation requests in flight: their trimmedKey
    timers,            \* setTimeout(..., 500) callbacks not yet run
    storedKey,         \* localStorage 'gemini_api_key'
    validated,         \* history: the validation requests that have ended
    onSaveCalls,       \* history: the keys onSave was called with
    submissions,       \* history: the order of the validations started
    \* the project library
    storage,           \* localStorage 'booksmith_projects'
    snaps,             \* history: book and messages at each save
    loaded,            \* history: the project the last step loaded, if any
    \* what concurrent use adds
    bookOf,            \* history: the task whose create_ebook call made the
                       \* current book, 0 when no task did
    overlap,           \* calls of handleSendMessage entered while another was
                       \* running, each with its request out
    \* EBookReader.tsx
    currentChapter,    \* the reader's page: -1 is the cover
    pdf                \* downloadPDF: the document being laid out

appVars == <<apiKey, geminiServiceRef, isKeyModalOpen, isLoading, currentMode,
             generatedBook, marketData, messages, savedProjects>>
sendVars == <<pc, message, attempts, lastError, chat, isActionTaken,
              responseText, result, log, sends, handling>>
keyVars == <<key, status, errorMessage, validations, timers, storedKey,
             validated, onSaveCalls, submissions>>
projVars == <<storage, snaps, loaded>>
raceVars == <<bookOf, overlap>>
readerVars == <<currentChapter, pdf>>
vars == <<revision, clock, appVars, sendVars, tasks, keyVars, projVars,
          raceVars, readerVars>>

\* the sequence s without its element v
Without(s, v) == [k \in 1..(Len(s) - 1) |-> IF k < v THEN s[k] ELSE s[k + 1]]

USER == "user"
AI == "model"

Message(sender, text) ==
    [sender |-> sender, text |-> text,
     timestamp |-> [type |-> "Date", t |-> clock]]

WelcomeMessage == Message(AI, Text(<<"Hello! I'm **BookSmith**.">>))

\* texts the user can submit: blank, and a request
UserTexts == { <<" ">>, <<"h", "i">> }

(* ------------------- GeminiService.sendMessage: events ---------------- *)

\* The log of one invocation: its requests, failures, waits and its end.  A
\* failure keeps its error text until the next request is issued, and its
\* kind ("rate", "auth", "malformed": malformed call or empty response,
\* "other") until a response is accepted; from then on the log keeps the
\* requests only, and goes on with the callbacks invoked for the response,
\* the tool-acknowledgement request and its failure, if it fails.
Event(e, msg, ms, kind, err) ==
    [e |-> e, msg |-> msg, ms |-> ms, kind |-> kind, err |-> err]

FailureKind(err) ==
    IF IsRateLimit(err) THEN "rate"
    ELSE IF IsAuthError(err) THEN "auth"
    ELSE IF err.name \in {"MALFORMED_JSON", "EMPTY_RESPONSE"} THEN "malformed"
    ELSE "other"

Req(msg) == Event("req", msg, 0, "", NoError)
Fail(err) == Event("fail", <<>>, 0, FailureKind(err), err)
Wait(ms) == Event("wait", <<>>, ms, "", NoError)
Ack == Event("ack", <<>>, 0, "", NoError)
AckFail(err) == Event("ackfail", <<>>, 0, "", err)
Callback(name) == Event("call", <<name>>, 0, "", NoError)
Throw(err) == Event("throw", <<>>, 0, "", err)
Return == Event("return", <<>>, 0, "", NoError)

Forget(events) ==
    [k \in DOMAIN events |->
        IF events[k].e = "fail" THEN [events[k] EXCEPT !.err = NoError]
        ELSE events[k]]

IsReq(ev) == ev.e = "req"
Requests(events) == SelectSeq(events, IsReq)

RephraseSuffix ==
    IF revision = "part_000" THEN " (Ensure valid JSON output.)"
    ELSE " (Focus on valid JSON. Keep outlines CONCISE.)"

\* a retry that repeats the message as it was
FinalMessageUnchanged(msg, att) == msg

\* finalMessage of the loop body
FinalMessage(msg, att) ==
    IF (revision = "part_000" /\ att = 1) \/ (revision = "part_001" /\ att > 0)
    THEN Append(msg, RephraseSuffix)
    ELSE msg

\* the text returned when the loop is left without a response
FallbackText(err) ==
    IF revision = "part_000"
    THEN Text(<<"I'm having trouble generating that much content at once.">>)
    ELSE Quoting(<<"I encountered an error: ", "QUOTED", ". Please try asking for fewer chapters">>, err)

SuccessText == <<"Content generated successfully!">>

(* ------------------- what the remote model can answer ------------------ *)

\* a chapter as the create_ebook tool declares it (0-based index i)
SuppliedChapter(i) ==
    [title |-> "title" \o ToString(i), outline |-> "outline" \o ToString(i),
     imageKeyword |-> "keyword" \o ToString(i)]

CreateEBook(n) ==
    [name |-> "create_ebook",
     args |-> [title |-> "Book", format |-> "novel",
               chapters |-> [k \in 1..n |-> SuppliedChapter(k - 1)],
               chapterIndex |-> 0, newContent |-> <<>>, topic |-> ""]]
AnalyzeMarket ==
    [name |-> "analyze_market",
     args |-> [title |-> "", format |-> "", chapters |-> <<>>,
               chapterIndex |-> 0, newContent |-> <<>>, topic |-> "AI books"]]
EditChapter(index) ==
    [name |-> "edit_chapter",
     args |-> [title |-> "", format |-> "", chapters |-> <<>>,
               chapterIndex |-> index, newContent |-> <<"edited">>, topic |-> ""]]

\* chapters supplied so far
RECURSIVE ChaptersSupplied(_)
ChaptersSupplied(ts) ==
    IF ts = <<>> THEN 0
    ELSE Len(Head(ts).args.chapters) + ChaptersSupplied(Tail(ts))

\* the function calls of one response; create_ebook within the run's budget
\* of chapters
FunctionCalls ==
    { CreateEBook(n) : n \in 0..(MaxChapters - ChaptersSupplied(tasks)) }
    \cup { AnalyzeMarket }
    \cup { EditChapter(index) : index \in {0, MaxChapters} }

\* two create_ebook calls in one response, within the budget
TwoBooks ==
    IF MaxChapters - ChaptersSupplied(tasks) >= 2
    THEN { <<CreateEBook(1), CreateEBook(1)>> }
    ELSE {}

Response(kind, err, finishReason, text, calls) ==
    [kind |-> kind, err |-> err, finishReason |-> finishReason,
     text |-> text, functionCalls |-> calls]

\* outcomes of a primary chat request
ChatOutcomes ==
    { Response("error", e, "", <<>>, <<>>) : e \in RemoteErrors }
    \cup { Response("ok", NoError, "MALFORMED_FUNCTION_CALL", <<>>, <<>>),
           Response("ok", NoError, "SAFETY", <<>>, <<>>),
           Response("ok", NoError, "STOP", <<>>, <<>>),
           Response("ok", NoError, "STOP", <<"reply">>, <<>>) }
    \cup { Response("ok", NoError, "STOP", t, <<c>>) :
             t \in {<<>>, <<"reply">>}, c \in FunctionCalls }
    \cup { Response("ok", NoError, "STOP", <<>>, cs) : cs \in TwoBooks }

\* outcomes of the tool-acknowledgement request
AckOutcomes ==
    { Response("error", ErrorText("remote", h), "", <<>>, <<>>) :
        h \in {{"429"}, {"403"}} }
    \cup { Response("ok", NoError, "STOP", t, <<>>) : t \in {<<>>, <<"done">>} }

\* outcomes of a generateContent request for a chapter
ChapterOutcomes ==
    { Response("error", ErrorText("remote", h), "", <<>>, <<>>) :
        h \in {{"429"}, {}} }
    \cup { Response("ok", NoError, "STOP", <<"prose">>, <<>>) }

(* ----------------- App.tsx: the callbacks of sendMessage --------------- *)

\* String.prototype.toUpperCase, on the formats the model supplies
ToUpperCase(format) ==
    IF format = "novel" THEN "NOVEL"
    ELSE IF format = "comic" THEN "COMIC"
    ELSE IF format = "guide" THEN "GUIDE"
    ELSE format

AppState ==
    [book |-> generatedBook, market |-> marketData, msgs |-> messages,
     mode |-> currentMode, action |-> isActionTaken]

onEBookGenerated(S, book) ==
    [S EXCEPT !.book = Some(book),
              !.msgs = Append(@, Message(AI,
                          Text(<<"**Success!** Created: ", book.title,
                                 ToUpperCase(book.format)>>))),
              !.mode = "preview",
              !.action = TRUE]

onMarketAnalyzed(S, data) ==
    [S EXCEPT !.market = Some(data), !.mode = "analysis", !.action = TRUE]

\* setGeneratedBook(prev => ...) of the chapter-edit callback
EditedBook(prev, chapterIndex, newContent) ==
    IF prev = Null THEN Null
    ELSE IF chapterIndex + 1 \in DOMAIN prev[1].chapters
         THEN Some([prev[1] EXCEPT
                      !.chapters[chapterIndex + 1].content = newContent])
         ELSE prev

onChapterEdited(S, chapterIndex, newContent) ==
    [S EXCEPT !.book = EditedBook(@, chapterIndex, newContent),
              !.msgs = Append(@, Message(AI,
                          Text(<<"**Edit Complete:** Chapter ",
                                 ToString(chapterIndex + 1), " updated.">>))),
              !.mode = "preview",
              !.action = TRUE]

SetApp(S) ==
    /\ generatedBook' = S.book
    /\ marketData' = S.market
    /\ messages' = S.msgs
    /\ currentMode' = S.mode
    /\ isActionTaken' = S.action

(* ------------- GeminiService: background chapter generation ------------ *)

\* The log of a task: the last onChapterEdited call, if any, and what the
\* task did since: the inter-chapter delay, the requests and the backoffs of
\* the chapter it is at.
TEvent(e, i, ms, content, failed) ==
    [e |-> e, ch |-> i, ms |-> ms, content |-> content, failed |-> failed]
TReq(i) == TEvent("req", i, 0, <<>>, FALSE)
TWait(i, ms) == TEvent("wait", i, ms, <<>>, FALSE)
TDeliver(i, content, failed) == TEvent("deliver", i, 0, content, failed)

\* chapters that start with their outline as content
InitialChaptersWithOutline(chapters) ==
    [k \in DOMAIN chapters |->
        [title |-> chapters[k].title,
         imageKeyword |-> chapters[k].imageKeyword,
         content |-> <<chapters[k].outline>>]]

\* const initialChapters = bookData.chapters.map(...)
InitialChapters(chapters) ==
    [k \in DOMAIN chapters |->
        [title |-> chapters[k].title,
         imageKeyword |-> chapters[k].imageKeyword,
         content |-> <<>>]]

\* const bookData = args; bookData.chapters = initialChapters:
\* args and bookData name one object, so this is what both hold afterwards
BookData(args) ==
    [title |-> args.title, format |-> args.format,
     chapters |-> InitialChapters(args.chapters)]

\* args.chapters[i].outline, as the background loop reads it
OutlineRead(args, i) == Field(args.chapters[i + 1], "outline")

Placeholder(outline) ==
    <<"(Content generation failed. Outline: ", outline, ")">>
PlaceholderAfterRetries(outline) ==
    <<"(Content generation failed after retries. Outline: ", outline, ")">>

\* the async function started for a create_ebook call, run to its first await:
\* with chapters, the request for chapter 0 is out
NewTask(args, supplied) ==
    [inv |-> sends,
     args |-> args,
     supplied |-> supplied,     \* history: the outlines the model supplied
     i |-> 0,
     attempts |-> 0,
     st |-> IF Len(args.chapters) = 0 THEN "done" ELSE "request",
     log |-> IF Len(args.chapters) = 0 THEN <<>> ELSE <<TReq(0)>>]

\* a loop that does not advance to the next chapter
DeliveredStaysPut(task, content, failed) ==
    [task EXCEPT
       !.attempts = 0,
       !.st = "delay",
       !.log = <<TDeliver(task.i, content, failed),
                 TWait(task.i, InterChapterDelay)>>]

\* a loop without `if (i > 0) await this.wait(2000)`
DeliveredWithoutDelay(task, content, failed) ==
    LET next == task.i + 1
        more == next < Len(task.args.chapters)
    IN [task EXCEPT
          !.i = next,
          !.attempts = 0,
          !.st = IF more THEN "request" ELSE "done",
          !.log = <<TDeliver(task.i, content, failed)>>
                    \o (IF more THEN <<TReq(next)>> ELSE <<>>)]

\* onChapterEdited(i, content), then the loop's next round to its first await
Delivered(task, content, failed) ==
    LET next == task.i + 1
        more == next < Len(task.args.chapters)
    IN [task EXCEPT
          !.i = next,
          !.attempts = 0,
          !.st = IF more THEN "delay" ELSE "done",
          !.log = <<TDeliver(task.i, content, failed)>>
                    \o (IF more THEN <<TWait(next, InterChapterDelay)>> ELSE <<>>)]

\* the callback belongs to the invocation that started the task: its
\* isActionTaken is that invocation's local
DeliverToApp(task, content) ==
    LET S == onChapterEdited(AppState, task.i, content)
    IN SetApp([S EXCEPT !.action =
                 IF task.inv = sends /\ pc # "idle" THEN TRUE ELSE isActionTaken])

\* no export has been started
NoExport == [st |-> "idle"]

\* App renders the reader in preview mode when there is a book
Mounted == currentMode = "preview" /\ generatedBook # Null

\* useState(-1) of the reader: the page is kept while the reader stays
\* rendered, whatever book it is handed, and starts at the cover when the
\* reader is rendered anew
ReaderRenders ==
    /\ currentChapter' = IF Mounted /\ Mounted' THEN currentChapter ELSE -1
    /\ UNCHANGED pdf

\* sendMessage has settled and handleSendMessage's continuation, a microtask,
\* runs before any timer or response is handled
Settling == pc \in {"resolved", "rejected"}

\* the catch of generateChapterContent: TRUE when the request is retried
RetriesChapter(err) == revision = "part_001" /\ Includes(err, "429")

ChapterReturns(t, r) ==
    /\ t \in DOMAIN tasks
    /\ tasks[t].st = "request"
    /\ ~Settling
    /\ LET task == tasks[t]
           outline == OutlineRead(task.args, task.i)
       IN IF r.kind = "ok"
          THEN /\ tasks' = [tasks EXCEPT ![t] = Delivered(task, r.text, FALSE)]
               /\ DeliverToApp(task, r.text)
          ELSE IF RetriesChapter(r.err)
          THEN /\ tasks' = [tasks EXCEPT
                     ![t].st = "backoff",
                     ![t].log = Append(@, TWait(task.i,
                                   Pow2(task.attempts) * ChapterBackoffBase))]
               /\ UNCHANGED <<generatedBook, marketData, messages, currentMode,
                              isActionTaken>>
          ELSE /\ tasks' = [tasks EXCEPT ![t] = Delivered(task, Placeholder(outline), TRUE)]
               /\ DeliverToApp(task, Placeholder(outline))
    /\ UNCHANGED <<keyVars, projVars>>
    /\ UNCHANGED <<revision, clock, apiKey, geminiServiceRef, isKeyModalOpen,
                   isLoading, savedProjects, pc, message, attempts, lastError,
                   chat, responseText, result, log, sends, handling>>
    /\ UNCHANGED raceVars
    /\ ReaderRenders

\* the loop test off by one
ChapterLoopContinuesOffByOne(att) ==
    IF revision = "part_001" THEN att <= ChapterAttempts ELSE att < 1

\* while (attempts < 3) of generateChapterContent; part_000 has no loop
ChapterLoopContinues(att) ==
    IF revision = "part_001" THEN att < ChapterAttempts ELSE att < 1

\* a wait of the background task ends: the inter-chapter delay, or the
\* backoff after a rate-limited chapter request
ChapterWaitEnds(t) ==
    /\ t \in DOMAIN tasks
    /\ tasks[t].st \in {"delay", "backoff"}
    /\ ~Settling
    /\ LET task == tasks[t]
           att == IF task.st = "backoff" THEN task.attempts + 1 ELSE 0
           outline == OutlineRead(task.args, task.i)
       IN IF ChapterLoopContinues(att)
          THEN /\ tasks' = [tasks EXCEPT ![t].st = "request",
                                         ![t].attempts = att,
                                         ![t].log = Append(@, TReq(task.i))]
               /\ UNCHANGED <<generatedBook, marketData, messages, currentMode,
                              isActionTaken>>
          ELSE /\ tasks' = [tasks EXCEPT
                     ![t] = Delivered(task, PlaceholderAfterRetries(outline), TRUE)]
               /\ DeliverToApp(task, PlaceholderAfterRetries(outline))
    /\ UNCHANGED <<keyVars, projVars>>
    /\ UNCHANGED <<revision, clock, apiKey, geminiServiceRef, isKeyModalOpen,
                   isLoading, savedProjects, pc, message, attempts, lastError,
                   chat, responseText, result, log, sends, handling>>
    /\ UNCHANGED raceVars
    /\ ReaderRenders

(* ---------------------- App.tsx: handleSendMessage --------------------- *)

\* the catch block's choice of errorText
IsKeyError(err) ==
    \/ Includes(err, "403")
    \/ Includes(err, "key not valid")
    \/ Includes(err, "invalid_api_key")

SystemErrorText(err) ==
    IF IsKeyError(err)
    THEN "Invalid API Key. Please click 'API Configuration' to update it."
    ELSE IF Includes(err, "fetch failed")
    THEN "Network error. Please check your internet connection."
    ELSE IF Includes(err, "empty response") \/ Includes(err, "safety")
            \/ Includes(err, "blocked")
    THEN IF Includes(err, "safety")
         THEN "The AI could not generate a response. Content blocked by safety filters."
         ELSE "The AI could not generate a response. Please try a simpler or shorter request."
    ELSE "An error occurred. The system might be overloaded. Please wait a moment and try again."

SystemError(err) == Message(AI, Text(<<"**System Error:** ", SystemErrorText(err)>>))

NoResult == [text |-> Text(<<>>), err |-> NoError]

\* the locals of the invocation go out of scope, and its log with them
InvocationOver ==
    /\ pc' = "idle"
    /\ message' = <<>>
    /\ attempts' = 0
    /\ lastError' = NoError
    /\ responseText' = <<>>
    /\ isActionTaken' = FALSE
    /\ result' = NoResult
    /\ log' = <<>>

\* a catch block that logs the error and shows nothing
CatchBlockSilent(base, err) ==
    /\ messages' = base
    /\ isKeyModalOpen' = (isKeyModalOpen \/ IsKeyError(err))
    /\ isLoading' = FALSE
    /\ InvocationOver

\* a catch block without the finally
CatchBlockKeepsLoading(base, err) ==
    /\ messages' = Append(base, SystemError(err))
    /\ isKeyModalOpen' = (isKeyModalOpen \/ IsKeyError(err))
    /\ UNCHANGED isLoading
    /\ InvocationOver

\* catch (error) { ... } finally { setIsLoading(false) }
CatchBlock(base, err) ==
    /\ messages' = Append(base, SystemError(err))
    /\ isKeyModalOpen' = (isKeyModalOpen \/ IsKeyError(err))
    /\ isLoading' = FALSE
    /\ InvocationOver

EmptyResponseFromAI == ErrorText("Empty response from AI", {"empty response"})

\* after the await: the rest of the try block, and finally
AfterAwait(response) ==
    IF response.tokens = <<>> /\ ~isActionTaken
    THEN CatchBlock(messages, EmptyResponseFromAI)
    ELSE /\ messages' = IF response.tokens # <<>>
                        THEN Append(messages, Message(AI, response))
                        ELSE messages
         /\ isLoading' = FALSE
         /\ InvocationOver
         /\ UNCHANGED isKeyModalOpen

\* no call of handleSendMessage yet
NoHandling == [text |-> <<>>, apiKey |-> <<>>, over |-> TRUE, replies |-> 0]

\* how many messages of the assistant a step has appended
Replies(before, after) ==
    Cardinality({ k \in (Len(before) + 1)..Len(after) : after[k].sender = AI })

\* what the conversation gets when sendMessage has used up its attempts on
\* err: part_000 rethrows it into the catch block, part_001 returns a reply
SurfacedFailure(err) ==
    IF revision = "part_000" THEN SystemError(err)
    ELSE Message(AI, FallbackText(err))

\* handleSendMessage(text), called with the page in mode `mode`.  A call
\* made while another is running adds the user's message and issues its own
\* request on the same chat session.
Entered(text, mode) ==
    /\ currentMode' = mode
    /\ IF Trim(text) = <<>>
       THEN UNCHANGED <<apiKey, geminiServiceRef, isKeyModalOpen, isLoading,
                        generatedBook, marketData, messages, savedProjects,
                        pc, message, attempts, lastError, chat,
                        isActionTaken, responseText, result, log, sends,
                        overlap>>
       ELSE IF apiKey = <<>>
       THEN /\ isKeyModalOpen' = TRUE
            /\ UNCHANGED <<apiKey, geminiServiceRef, isLoading,
                           generatedBook, marketData, messages, savedProjects,
                           pc, message, attempts, lastError, chat,
                           isActionTaken, responseText, result, log, sends,
                           overlap>>
       ELSE IF pc # "idle"
       THEN /\ messages' = Append(messages, Message(USER, Text(text)))
            /\ isLoading' = TRUE
            /\ overlap' = Append(overlap, [message |-> text])
            /\ UNCHANGED <<apiKey, geminiServiceRef, isKeyModalOpen,
                           generatedBook, marketData, savedProjects,
                           pc, message, attempts, lastError, chat,
                           isActionTaken, responseText, result, log, sends>>
       ELSE IF ~geminiServiceRef
       THEN /\ CatchBlock(Append(messages, Message(USER, Text(text))),
                          ServiceNotInitialized)
            /\ UNCHANGED <<apiKey, geminiServiceRef, generatedBook,
                           marketData, savedProjects, chat, sends, overlap>>
       ELSE \* sendMessage runs to its first request
            /\ sends' = sends + 1
            /\ messages' = Append(messages, Message(USER, Text(text)))
            /\ isLoading' = TRUE
            /\ isActionTaken' = FALSE
            /\ chat' = TRUE
            /\ message' = text
            /\ attempts' = 0
            /\ lastError' = NoError
            /\ responseText' = <<>>
            /\ result' = NoResult
            /\ log' = <<Req(FinalMessage(text, 0))>>
            /\ pc' = "primary"
            /\ UNCHANGED <<apiKey, geminiServiceRef, isKeyModalOpen,
                           generatedBook, marketData, savedProjects, overlap>>
    /\ handling' = IF pc # "idle" THEN handling
                   ELSE [text |-> text, apiKey |-> apiKey, over |-> (pc' = "idle"),
                         replies |-> Replies(messages, messages')]
    /\ UNCHANGED <<keyVars, projVars>>
    /\ UNCHANGED <<revision, clock, tasks, bookOf>>
    /\ ReaderRenders

\* a call of handleSendMessage while no other is running
HandleSendMessage(text) ==
    /\ pc = "idle"
    /\ Len(messages) < MaxMessages
    /\ Entered(text, currentMode)

\* the chat input: Enter in the field, which is disabled while isLoading is
\* set or no credential is
ChatInput(text) ==
    /\ currentMode = "chat"
    /\ ~isLoading /\ apiKey # <<>>
    /\ Len(messages) < MaxMessages
    /\ Entered(text, "chat")

Prompts == { <<"Create a Non-Fiction guide.">> }

\* the template buttons, shown while the conversation is short and isLoading
\* is not set
HandleTemplateClick(prompt) ==
    /\ currentMode = "chat"
    /\ Len(messages) < TemplateLimit /\ ~isLoading
    /\ Len(messages) < MaxMessages
    /\ Entered(prompt, "chat")

Topics == { <<" ">>, <<"ai">> }

\* handleSearch of the market-analysis page, then handleAnalyzeTopic
HandleSearch(topicInput) ==
    /\ currentMode = "analysis"
    /\ Len(messages) < MaxMessages
    /\ IF Trim(topicInput) = <<>>
       THEN UNCHANGED vars
       ELSE Entered(<<"Analyze the market for: ">> \o topicInput, "chat")

\* handleSendMessage goes on after `await sendMessage(...)`
Settle ==
    /\ Settling
    /\ IF pc = "rejected"
       THEN CatchBlock(messages, result.err)
       ELSE AfterAwait(result.text)
    /\ handling' = [handling EXCEPT !.over = TRUE,
                                    !.replies = Replies(messages, messages')]
    /\ UNCHANGED <<keyVars, projVars>>
    /\ UNCHANGED <<revision, clock, apiKey, geminiServiceRef, currentMode,
                   generatedBook, marketData, savedProjects, chat, sends, tasks>>
    /\ UNCHANGED raceVars
    /\ ReaderRenders

(* -------------------- GeminiService.sendMessage ------------------------ *)

\* the loop test off by one
LoopContinuesOffByOne(att) == att <= maxAttempts

\* while (attempts < maxAttempts)
LoopContinues(att) == att < maxAttempts

\* a wait that does not grow with the attempts
RateLimitWaitFixed(att) == RateLimitStep

\* const waitTime = (attempts + 1) * 2000
RateLimitWait(att) == (att + 1) * RateLimitStep

\* the catch block's branch, in the order the code tests
ErrorClass(err) ==
    IF IsRateLimit(err) THEN "rate"
    ELSE IF IsAuthError(err) THEN "auth"
    ELSE "other"

\* what the try block throws for a response, if anything
ThrownFor(r) ==
    IF r.kind = "error" THEN Some(r.err)
    ELSE IF r.finishReason = "MALFORMED_FUNCTION_CALL" THEN Some(MALFORMED_JSON)
    ELSE IF r.finishReason = "SAFETY" THEN Some(SAFETY_BLOCK)
    ELSE IF r.text = <<>> /\ r.functionCalls = <<>> THEN Some(EMPTY_RESPONSE)
    ELSE Null

\* return responseText
ReturnedAsIs(text) == Text(text)

\* return responseText || "Content generated successfully!"
Returned(text) == IF text # <<>> THEN Text(text) ELSE Text(SuccessText)

\* sendMessage returns text / throws err: its promise settles
Resolves(events, text) ==
    /\ pc' = "resolved"
    /\ result' = [text |-> text, err |-> NoError]
    /\ log' = Append(events, Return)

Rejects(events, err) ==
    /\ pc' = "rejected"
    /\ result' = [text |-> Text(<<>>), err |-> err]
    /\ log' = Append(events, Throw(err))

\* for (const call of calls) { ... }: the callbacks run, the tasks start
RECURSIVE ProcessCalls(_, _)
ProcessCalls(calls, acc) ==
    IF calls = <<>> THEN acc
    ELSE LET call == Head(calls)
             args == call.args
             step ==
               IF call.name = "create_ebook"
               THEN [acc EXCEPT
                       !.app = onEBookGenerated(@, BookData(args)),
                       !.tasks = Append(@, NewTask(BookData(args),
                                    [k \in DOMAIN args.chapters |->
                                        args.chapters[k].outline])),
                       !.called = Append(@, Callback("onEBookGenerated")),
                       !.parts = @ + 1]
               ELSE IF call.name = "analyze_market"
               THEN [acc EXCEPT
                       !.app = onMarketAnalyzed(@, [topic |-> args.topic]),
                       !.called = Append(@, Callback("onMarketAnalyzed")),
                       !.parts = @ + 1]
               ELSE IF call.name = "edit_chapter"
               THEN [acc EXCEPT
                       !.app = onChapterEdited(@, args.chapterIndex, args.newContent),
                       !.called = Append(@, Callback("onChapterEdited")),
                       !.parts = @ + 1]
               ELSE acc
         IN ProcessCalls(Tail(calls), step)

\* catch (error) of the loop body
Caught(err) ==
    LET failed == Append(log, Fail(err))
        kept == IF revision = "part_001" THEN err ELSE lastError
        class == ErrorClass(err)
    IN /\ lastError' = kept
       /\ IF class = "rate"
          THEN /\ pc' = "waitRate"
               /\ log' = Append(failed, Wait(RateLimitWait(attempts)))
               /\ UNCHANGED <<attempts, result>>
          ELSE IF class = "auth"
          THEN /\ Rejects(failed, err)
               /\ UNCHANGED attempts
          ELSE /\ attempts' = attempts + 1
               /\ IF attempts + 1 >= maxAttempts
                  THEN IF revision = "part_000"
                       THEN Rejects(failed, err)
                       ELSE Resolves(failed, FallbackText(kept))
                  ELSE /\ pc' = "waitOther"
                       /\ log' = Append(failed, Wait(GenericRetryDelay))
                       /\ UNCHANGED result

PrimaryReturns(r) ==
    /\ pc = "primary"
    /\ IF ThrownFor(r) # Null
       THEN /\ Caught(ThrownFor(r)[1])
            /\ UNCHANGED <<currentMode, generatedBook, marketData, messages,
                           isActionTaken, responseText, tasks, bookOf>>
       ELSE IF r.functionCalls # <<>>
       THEN LET done == ProcessCalls(r.functionCalls,
                           [app |-> AppState, tasks |-> tasks, parts |-> 0,
                            called |-> <<>>])
                events == Requests(log) \o done.called
            IN /\ SetApp(done.app)
               /\ tasks' = done.tasks
               /\ bookOf' = IF Len(done.tasks) > Len(tasks)
                            THEN Len(done.tasks) ELSE bookOf
               /\ responseText' = r.text
               /\ IF done.parts > 0
                  THEN /\ pc' = "ack"
                       /\ log' = Append(events, Ack)
                       /\ UNCHANGED result
                  ELSE Resolves(events, Returned(r.text))
               /\ UNCHANGED <<attempts, lastError>>
       ELSE /\ Resolves(Requests(log), Returned(r.text))
            /\ responseText' = r.text
            /\ UNCHANGED <<currentMode, generatedBook, marketData, messages,
                           isActionTaken, tasks, bookOf, attempts, lastError>>
    /\ UNCHANGED <<keyVars, projVars>>
    /\ UNCHANGED <<revision, clock, apiKey, geminiServiceRef, isKeyModalOpen,
                   isLoading, savedProjects, message, chat, sends, handling,
                   overlap>>
    /\ ReaderRenders

\* await this.wait(...) of the catch block ends; the loop goes round
WaitEnds ==
    /\ pc \in {"waitRate", "waitOther"}
    /\ LET att == IF pc = "waitRate" THEN attempts + 1 ELSE attempts
       IN /\ attempts' = att
          /\ IF LoopContinues(att)
             THEN /\ pc' = "primary"
                  /\ log' = Append(Forget(log), Req(FinalMessage(message, att)))
                  /\ UNCHANGED result
             ELSE Resolves(log, FallbackText(lastError))
    /\ UNCHANGED <<keyVars, projVars>>
    /\ UNCHANGED <<revision, clock, appVars, message, lastError, chat,
                   isActionTaken, responseText, sends, handling, tasks>>
    /\ UNCHANGED raceVars
    /\ ReaderRenders

\* a tool acknowledgement whose failure is handled like a failure of the
\* primary request
AckReturnsRetrying(r) ==
    /\ pc = "ack"
    /\ IF r.kind = "error"
       THEN /\ Caught(r.err)
            /\ UNCHANGED responseText
       ELSE LET text == IF r.text # <<>>
                        THEN responseText \o <<"\n\n">> \o r.text
                        ELSE responseText
            IN /\ responseText' = text
               /\ Resolves(log, Returned(text))
               /\ UNCHANGED <<attempts, lastError>>
    /\ UNCHANGED <<keyVars, projVars>>
    /\ UNCHANGED <<revision, clock, appVars, message, chat,
                   isActionTaken, sends, handling, tasks>>
    /\ UNCHANGED raceVars
    /\ ReaderRenders

\* a tool acknowledgement whose failure is thrown to the caller
AckReturnsFatal(r) ==
    /\ pc = "ack"
    /\ IF r.kind = "error"
       THEN /\ Rejects(Append(log, AckFail(r.err)), r.err)
            /\ UNCHANGED responseText
       ELSE LET text == IF r.text # <<>>
                        THEN responseText \o <<"\n\n">> \o r.text
                        ELSE responseText
            IN /\ responseText' = text
               /\ Resolves(log, Returned(text))
    /\ UNCHANGED <<keyVars, projVars>>
    /\ UNCHANGED <<revision, clock, appVars, message, attempts, lastError, chat,
                   isActionTaken, sends, handling, tasks>>
    /\ UNCHANGED raceVars
    /\ ReaderRenders

\* the tool-acknowledgement request ends; a failure is swallowed
AckReturns(r) ==
    /\ pc = "ack"
    /\ LET failed == r.kind = "error"
           text == IF ~failed /\ r.text # <<>>
                   THEN responseText \o <<"\n\n">> \o r.text
                   ELSE responseText
           events == IF failed THEN Append(log, AckFail(r.err)) ELSE log
       IN /\ responseText' = text
          /\ Resolves(events, Returned(text))
    /\ UNCHANGED <<keyVars, projVars>>
    /\ UNCHANGED <<revision, clock, appVars, message, attempts, lastError, chat,
                   isActionTaken, sends, handling, tasks>>
    /\ UNCHANGED raceVars
    /\ ReaderRenders

\* answers that end an overlapping call with its first request
OverlapOutcomes ==
    { Response("ok", NoError, "STOP", <<"reply">>, <<>>),
      Response("error", ErrorText("remote", {"403"}), "", <<>>, <<>>) }

\* an overlapping call ends: its reply or its failure message is appended and
\* its finally block clears isLoading
OverlapSettles(k, r) ==
    /\ k \in DOMAIN overlap
    /\ ~Settling
    /\ overlap' = Without(overlap, k)
    /\ isLoading' = FALSE
    /\ IF r.kind = "ok"
       THEN /\ messages' = Append(messages, Message(AI, Returned(r.text)))
            /\ UNCHANGED isKeyModalOpen
       ELSE /\ messages' = Append(messages, SystemError(r.err))
            /\ isKeyModalOpen' = (isKeyModalOpen \/ IsKeyError(r.err))
    /\ UNCHANGED <<apiKey, geminiServiceRef, currentMode, generatedBook,
                   marketData, savedProjects>>
    /\ UNCHANGED <<revision, clock, sendVars, tasks, keyVars, projVars, bookOf>>
    /\ ReaderRenders

(* --------------------- ApiKeyModal.tsx and its props ------------------- *)

\* what the user types into the key field
KeyTexts == { <<" ">>, <<"k">>, <<" ", "j", " ">> }

\* outcomes of the validation request
ValidationOutcomes ==
    { NoError } \cup
    { ErrorText("remote", h) :
        h \in { {"429"}, {"quota"}, {"403"}, {"400"} } }

\* history of the validations: one entry per request in flight (v) and per
\* timer pending (t), in the order of `validations' and of `timers'.  An entry
\* is stale once the user has closed the dialog or removed the key after the
\* validation was started; later is the key of the last validation started
\* while this one was in flight.  The history is kept where on is set
NoSubmission == [on |-> TRUE, v |-> <<>>, t |-> <<>>]
Untracked == [on |-> FALSE, v |-> <<>>, t |-> <<>>]

Submitted(trimmedKey) ==
    LET overlapped == [k \in DOMAIN submissions.v |->
                         [submissions.v[k] EXCEPT !.later = Some(trimmedKey)]]
    IN IF ~submissions.on THEN submissions
       ELSE [submissions EXCEPT !.v = Append(overlapped,
                                             [stale |-> FALSE, later |-> Null])]

Ended(v, accepted) ==
    IF ~submissions.on THEN submissions
    ELSE [submissions EXCEPT !.v = Without(@, v),
                             !.t = IF accepted
                                   THEN Append(@, submissions.v[v]) ELSE @]

Fired ==
    IF ~submissions.on THEN submissions
    ELSE [submissions EXCEPT !.t = Tail(@)]

Abandoned ==
    [submissions EXCEPT
        !.v = [k \in DOMAIN submissions.v |->
                 [submissions.v[k] EXCEPT !.stale = TRUE]],
        !.t = [k \in DOMAIN submissions.t |->
                 [submissions.t[k] EXCEPT !.stale = TRUE]]]

\* useEffect(() => {...}, [currentKey, isOpen]) of the dialog, for the render
\* that follows a change of apiKey or isKeyModalOpen; otherwise the values
\* the handler has set stand
ResetEffect(newKey, newStatus, newError) ==
    IF apiKey' # apiKey \/ isKeyModalOpen' # isKeyModalOpen
    THEN /\ key' = apiKey'
         /\ status' = "idle"
         /\ errorMessage' = ""
    ELSE /\ key' = newKey
         /\ status' = newStatus
         /\ errorMessage' = newError

\* the header button of App: setIsKeyModalOpen(true)
OpenKeyModal ==
    /\ ~isKeyModalOpen
    /\ isKeyModalOpen' = TRUE
    /\ UNCHANGED <<apiKey, geminiServiceRef, isLoading, currentMode,
                   generatedBook, marketData, messages, savedProjects,
                   validations, timers, storedKey, validated, onSaveCalls,
                   submissions>>
    /\ ResetEffect(key, status, errorMessage)
    /\ UNCHANGED <<revision, clock, sendVars, tasks, projVars>>
    /\ UNCHANGED raceVars
    /\ ReaderRenders

\* onClose: the X button of the dialog
CloseKeyModal ==
    /\ isKeyModalOpen
    /\ isKeyModalOpen' = FALSE
    /\ submissions' = Abandoned
    /\ UNCHANGED <<apiKey, geminiServiceRef, isLoading, currentMode,
                   generatedBook, marketData, messages, savedProjects,
                   validations, timers, storedKey, validated, onSaveCalls>>
    /\ ResetEffect(key, status, errorMessage)
    /\ UNCHANGED <<revision, clock, sendVars, tasks, projVars>>
    /\ UNCHANGED raceVars
    /\ ReaderRenders

\* onChange of the key field
TypeKey(text) ==
    /\ isKeyModalOpen
    /\ key' = text
    /\ status' = "idle"
    /\ errorMessage' = ""
    /\ UNCHANGED <<appVars, validations, timers, storedKey, validated,
                   onSaveCalls, submissions>>
    /\ UNCHANGED <<revision, clock, sendVars, tasks, projVars>>
    /\ UNCHANGED raceVars
    /\ ReaderRenders

\* validateAndSave up to its await: by the button, or by Enter in the field
ValidateAndSave ==
    /\ isKeyModalOpen
    /\ LET trimmedKey == Trim(key)
       IN IF trimmedKey = <<>>
          THEN /\ errorMessage' = "Please enter an API key."
               /\ status' = "error"
               /\ UNCHANGED <<validations, submissions>>
          ELSE /\ Len(validated) + Len(validations) < MaxValidations
               /\ status' = "validating"
               /\ errorMessage' = ""
               /\ validations' = Append(validations,
                                    [trimmedKey |-> trimmedKey, typed |-> key])
               /\ submissions' = Submitted(trimmedKey)
    /\ UNCHANGED <<appVars, key, timers, storedKey, validated, onSaveCalls>>
    /\ UNCHANGED <<revision, clock, sendVars, tasks, projVars>>
    /\ UNCHANGED raceVars
    /\ ReaderRenders

\* the message the dialog shows for a rejected key
ValidationErrorMessage(err) ==
    IF Includes(err, "403") \/ Includes(err, "permission denied")
    THEN "Key rejected. This is usually a billing/project setting."
    ELSE IF Includes(err, "400") \/ Includes(err, "invalid argument")
    THEN "Invalid Key Format."
    ELSE "Connection failed. Please check internet."

\* every answer of the validation request accepts the key
KeyAcceptedOnAnyAnswer(err) == TRUE

\* a rate-limit answer that rejects the key like any other failure
KeyAcceptedOnSuccessOnly(err) == err = NoError

\* the key is taken as valid: the request succeeded, or hit a rate limit
KeyAccepted(err) ==
    err = NoError \/ Includes(err, "429") \/ Includes(err, "quota")

\* validateAndSave after its await
ValidationReturns(v, err) ==
    /\ v \in DOMAIN validations
    /\ validations' = Without(validations, v)
    /\ validated' = Append(validated, [typed |-> validations[v].typed, err |-> err])
    /\ IF KeyAccepted(err)
       THEN /\ status' = "valid"
            /\ timers' = Append(timers, validations[v].trimmedKey)
            /\ UNCHANGED errorMessage
       ELSE /\ status' = "error"
            /\ errorMessage' = ValidationErrorMessage(err)
            /\ UNCHANGED timers
    /\ submissions' = Ended(v, KeyAccepted(err))
    /\ UNCHANGED <<appVars, key, storedKey, onSaveCalls>>
    /\ UNCHANGED <<revision, clock, sendVars, tasks, projVars>>
    /\ UNCHANGED raceVars
    /\ ReaderRenders

\* onSave of App, and the effect on [apiKey] of the render that follows
OnSave(newKey) ==
    /\ apiKey' = newKey
    /\ onSaveCalls' = Append(onSaveCalls, newKey)
    /\ IF newKey = apiKey
       THEN /\ isKeyModalOpen' = FALSE
            /\ UNCHANGED <<geminiServiceRef, storedKey>>
       ELSE IF newKey # <<>>
       THEN /\ isKeyModalOpen' = FALSE
            /\ geminiServiceRef' = TRUE
            /\ storedKey' = newKey
       ELSE /\ isKeyModalOpen' = TRUE
            /\ UNCHANGED <<geminiServiceRef, storedKey>>

\* the timer of an accepted key: onSave(trimmedKey); onClose()
TimerFires ==
    /\ timers # <<>>
    /\ timers' = Tail(timers)
    /\ submissions' = Fired
    /\ OnSave(Head(timers))
    /\ ResetEffect(key, status, errorMessage)
    /\ UNCHANGED <<isLoading, currentMode, generatedBook, marketData, messages,
                   savedProjects, validations, validated>>
    /\ UNCHANGED <<revision, clock, sendVars, tasks, projVars>>
    /\ UNCHANGED raceVars
    /\ ReaderRenders

\* handleClear: the button is there when currentKey is not empty.  The dialog
\* closes and the effect on [apiKey] opens it again, so the reset effect runs
HandleClear ==
    /\ isKeyModalOpen
    /\ apiKey # <<>>
    /\ OnSave(<<>>)
    /\ submissions' = Abandoned
    /\ key' = <<>>
    /\ status' = "idle"
    /\ errorMessage' = ""
    /\ UNCHANGED <<isLoading, currentMode, generatedBook, marketData, messages,
                   savedProjects, validations, timers, validated>>
    /\ UNCHANGED <<revision, clock, sendVars, tasks, projVars>>
    /\ UNCHANGED raceVars
    /\ ReaderRenders

(* ------------------- App.tsx: the project library ---------------------- *)

\* Date.prototype.toJSON: JSON.stringify writes a Date as its ISO string
ToJSON(value) ==
    IF value.type = "Date" THEN [type |-> "string", t |-> value.t] ELSE value

\* JSON.stringify(savedProjects)
Stringify(projects) ==
    [json |->
        [k \in DOMAIN projects |->
            [projects[k] EXCEPT !.messages =
                [m \in DOMAIN @ |-> [@[m] EXCEPT !.timestamp = ToJSON(@)]]]]]

\* JSON.parse(saved): no reviver, what was written as a string stays one
Parse(text) == text.json

ProjectSaved == Message(AI, Text(<<"**Project Saved!**">>))

\* a record made after the confirmation message was appended
NewProjectAfterMessage ==
    [id |-> ToString(clock), name |-> generatedBook[1].title,
     book |-> generatedBook[1], messages |-> Append(messages, ProjectSaved),
     marketData |-> marketData, createdAt |-> clock]

\* useEffect(() => localStorage.setItem('booksmith_projects', ...), [savedProjects])
Persist == storage' = Some(Stringify(savedProjects'))

NewProject ==
    [id |-> ToString(clock), name |-> generatedBook[1].title,
     book |-> generatedBook[1], messages |-> messages,
     marketData |-> marketData, createdAt |-> clock]

\* the Save button of the reader, shown in preview mode with a book
HandleSaveProject ==
    /\ currentMode = "preview"
    /\ generatedBook # Null
    /\ Len(snaps) < MaxSaves
    /\ savedProjects' = <<NewProject>> \o savedProjects
    /\ messages' = Append(messages, ProjectSaved)
    /\ Persist
    /\ snaps' = Append(snaps, [id |-> NewProject.id, book |-> generatedBook[1],
                               messages |-> messages])
    /\ loaded' = Null
    /\ UNCHANGED <<apiKey, geminiServiceRef, isKeyModalOpen, isLoading,
                   currentMode, generatedBook, marketData>>
    /\ UNCHANGED <<revision, clock, sendVars, tasks, keyVars>>
    /\ UNCHANGED raceVars
    /\ ReaderRenders

\* onLoadProject of the library, shown in projects mode
LoadProject(k) ==
    /\ currentMode = "projects"
    /\ k \in DOMAIN savedProjects
    /\ generatedBook' = Some(savedProjects[k].book)
    /\ messages' = savedProjects[k].messages
    /\ currentMode' = "preview"
    /\ loaded' = Some(savedProjects[k].id)
    /\ UNCHANGED <<apiKey, geminiServiceRef, isKeyModalOpen, isLoading,
                   marketData, savedProjects, storage, snaps>>
    /\ UNCHANGED <<revision, clock, sendVars, tasks, keyVars>>
    /\ bookOf' = 0
    /\ UNCHANGED overlap
    /\ ReaderRenders

KeepsOtherIds(projects, id) ==
    SelectSeq(projects, LAMBDA q : q.id # id)

\* onDeleteProject
DeleteProject(k) ==
    /\ currentMode = "projects"
    /\ k \in DOMAIN savedProjects
    /\ savedProjects' = KeepsOtherIds(savedProjects, savedProjects[k].id)
    /\ Persist
    /\ loaded' = Null
    /\ UNCHANGED <<apiKey, geminiServiceRef, isKeyModalOpen, isLoading,
                   currentMode, generatedBook, marketData, messages, snaps>>
    /\ UNCHANGED <<revision, clock, sendVars, tasks, keyVars>>
    /\ UNCHANGED raceVars
    /\ ReaderRenders

AppModes == {"chat", "preview", "analysis", "projects"}

\* the sidebar buttons; Read Book is disabled without a book
SetCurrentMode(mode) ==
    /\ mode # currentMode
    /\ mode = "preview" => generatedBook # Null
    /\ currentMode' = mode
    /\ loaded' = Null
    /\ UNCHANGED <<apiKey, geminiServiceRef, isKeyModalOpen, isLoading,
                   generatedBook, marketData, messages, savedProjects,
                   storage, snaps>>
    /\ UNCHANGED <<revision, clock, sendVars, tasks, keyVars>>
    /\ UNCHANGED raceVars
    /\ ReaderRenders

\* time passes
Tick ==
    /\ clock < MaxClock
    /\ clock' = clock + 1
    /\ loaded' = Null
    /\ UNCHANGED <<revision, appVars, sendVars, tasks, keyVars, storage, snaps>>
    /\ UNCHANGED raceVars
    /\ ReaderRenders

\* the page is loaded again: every useState initializer and mount effect runs,
\* what the page was doing is gone, the histories go on
Reload ==
    /\ apiKey' = storedKey
    /\ geminiServiceRef' = (storedKey # <<>>)
    /\ isKeyModalOpen' = (storedKey = <<>>)
    /\ isLoading' = FALSE
    /\ currentMode' = "chat"
    /\ generatedBook' = Null
    /\ marketData' = Null
    /\ messages' = <<WelcomeMessage>>
    /\ savedProjects' = IF storage = Null THEN <<>> ELSE Parse(storage[1])
    /\ Persist
    /\ InvocationOver
    /\ chat' = FALSE
    /\ tasks' = <<>>
    /\ key' = storedKey
    /\ status' = "idle"
    /\ errorMessage' = ""
    /\ validations' = <<>>
    /\ timers' = <<>>
    /\ submissions' = [submissions EXCEPT !.v = <<>>, !.t = <<>>]
    /\ loaded' = Null
    /\ UNCHANGED <<revision, clock, sends, handling, storedKey, validated,
                   onSaveCalls, snaps>>
    /\ bookOf' = 0
    /\ overlap' = <<>>
    /\ ReaderRenders

(* --------------------------- specification ----------------------------- *)

\* the dialog as mounted; the effect on [apiKey] has stored a key that is set
InitDialog(history) ==
    /\ key = apiKey
    /\ status = "idle"
    /\ errorMessage = ""
    /\ validations = <<>>
    /\ timers = <<>>
    /\ storedKey = apiKey
    /\ validated = <<>>
    /\ onSaveCalls = <<>>
    /\ submissions = history

InitKey == InitDialog(Untracked)

\* the effect on [savedProjects] has written the list read at the start
InitProj ==
    /\ storage = Some(Stringify(savedProjects))
    /\ snaps = <<>>
    /\ loaded = Null

InitPage ==
    /\ revision \in Revisions
    /\ clock = 0
    /\ apiKey \in {<<>>, <<"k">>}
    /\ geminiServiceRef \in (IF apiKey = <<>> THEN {FALSE} ELSE BOOLEAN)
    /\ isKeyModalOpen = (apiKey = <<>>)
    /\ isLoading = FALSE
    /\ currentMode = "chat"
    /\ generatedBook = Null
    /\ marketData = Null
    /\ messages = <<WelcomeMessage>>
    /\ savedProjects = <<>>
    /\ pc = "idle"
    /\ message = <<>>
    /\ attempts = 0
    /\ lastError = NoError
    /\ chat = FALSE
    /\ isActionTaken = FALSE
    /\ responseText = <<>>
    /\ result = NoResult
    /\ log = <<>>
    /\ sends = 0
    /\ handling = NoHandling
    /\ tasks = <<>>
    /\ bookOf = 0
    /\ overlap = <<>>
    /\ currentChapter = -1
    /\ pdf = NoExport

Init == InitPage /\ InitKey /\ InitProj

Next ==
    \/ \E text \in UserTexts : HandleSendMessage(text)
    \/ \E r \in ChatOutcomes : PrimaryReturns(r)
    \/ WaitEnds
    \/ \E r \in AckOutcomes : AckReturns(r)
    \/ Settle
    \/ \E t \in DOMAIN tasks, r \in ChapterOutcomes : ChapterReturns(t, r)
    \/ \E t \in DOMAIN tasks : ChapterWaitEnds(t)

Spec == Init /\ [][Next]_vars

\* the credential dialog
NextKey ==
    \/ OpenKeyModal
    \/ CloseKeyModal
    \/ \E text \in KeyTexts : TypeKey(text)
    \/ ValidateAndSave
    \/ \E v \in DOMAIN validations, err \in ValidationOutcomes :
          ValidationReturns(v, err)
    \/ TimerFires
    \/ HandleClear

\* a background task goes on: its request returns or fails, or its timer fires
TaskStep ==
    \/ \E t \in DOMAIN tasks, r \in ChapterOutcomes : ChapterReturns(t, r)
    \/ \E t \in DOMAIN tasks : ChapterWaitEnds(t)

\* while a background task awaits a request or a timer, one of these ends;
\* the continuation of a settled promise runs
SpecFair == Spec /\ WF_vars(Settle) /\ WF_vars(TaskStep)

\* the running invocation goes on: its request returns or fails, its wait
\* ends, or the continuation of the settled promise runs
SendStep ==
    /\ pc # "idle"
    /\ \/ \E r \in ChatOutcomes : PrimaryReturns(r)
       \/ WaitEnds
       \/ \E r \in AckOutcomes : AckReturns(r)
       \/ Settle

\* every remote call returns or fails and every timer fires
SpecLive == Spec /\ WF_vars(SendStep)

SpecKey == Init /\ [][NextKey]_vars

\* the credential dialog with the history of its validations kept
InitKeyRace == InitPage /\ InitDialog(NoSubmission) /\ InitProj

SpecKeyRace == InitKeyRace /\ [][NextKey]_vars

\* the entry points of handleSendMessage and the sidebar; the background
\* tasks are left where their first request is out
NextEntry ==
    \/ \E text \in UserTexts : ChatInput(text)
    \/ \E prompt \in Prompts : HandleTemplateClick(prompt)
    \/ \E topicInput \in Topics : HandleSearch(topicInput)
    \/ \E mode \in AppModes : SetCurrentMode(mode)
    \/ \E k \in DOMAIN overlap, r \in OverlapOutcomes : OverlapSettles(k, r)
    \/ \E r \in ChatOutcomes : PrimaryReturns(r)
    \/ WaitEnds
    \/ \E r \in AckOutcomes : AckReturns(r)
    \/ Settle

SpecEntry == Init /\ [][NextEntry]_vars

\* a conversation that has produced a book of one chapter
BookArrived ==
    LET asked == [book |-> Null, market |-> Null, mode |-> "chat", action |-> FALSE,
                  msgs |-> <<WelcomeMessage, Message(USER, Text(<<"h", "i">>))>>]
        created == onEBookGenerated(asked, BookData(CreateEBook(1).args))
        written == onChapterEdited(created, 0, <<"prose">>)
    IN [written EXCEPT !.msgs = Append(@, Message(AI, Text(SuccessText)))]

\* a conversation whose first request failed on every attempt and whose
\* second produced a book of one chapter, the chapter request failing too
FailedThenBook ==
    LET hi == Message(USER, Text(<<"h", "i">>))
        asked == [book |-> Null, market |-> Null, mode |-> "chat", action |-> FALSE,
                  msgs |-> <<WelcomeMessage, hi,
                             SurfacedFailure(ErrorText("remote", {})), hi>>]
        book == BookData(CreateEBook(1).args)
        created == onEBookGenerated(asked, book)
        written == onChapterEdited(created, 0, Placeholder(OutlineRead(book, 0)))
    IN [written EXCEPT !.msgs = Append(@, Message(AI, Text(SuccessText)))]

\* a conversation that produced a market analysis and then a book of one
\* chapter
AnalysedThenBook ==
    LET hi == Message(USER, Text(<<"h", "i">>))
        reply == Message(AI, Text(SuccessText))
        asked == [book |-> Null, market |-> Null, mode |-> "chat", action |-> FALSE,
                  msgs |-> <<WelcomeMessage, hi>>]
        analysed == onMarketAnalyzed(asked, [topic |-> AnalyzeMarket.args.topic])
        again == [analysed EXCEPT !.msgs = @ \o <<reply, hi>>]
        created == onEBookGenerated(again, BookData(CreateEBook(1).args))
        written == onChapterEdited(created, 0, <<"prose">>)
    IN [written EXCEPT !.msgs = Append(@, reply)]

\* the project library, from a fresh page or from a page with a book
InitLibrary ==
    /\ revision \in Revisions
    /\ clock = 0
    /\ apiKey = <<"k">>
    /\ geminiServiceRef = TRUE
    /\ isKeyModalOpen = FALSE
    /\ isLoading = FALSE
    /\ \E S \in { [BookArrived EXCEPT !.msgs = <<WelcomeMessage>>,
                                       !.book = Null, !.mode = "chat"],
                   BookArrived, FailedThenBook, AnalysedThenBook } :
          /\ currentMode = S.mode
          /\ generatedBook = S.book
          /\ marketData = S.market
          /\ messages = S.msgs
    /\ savedProjects = <<>>
    /\ pc = "idle"
    /\ message = <<>>
    /\ attempts = 0
    /\ lastError = NoError
    /\ chat \in BOOLEAN
    /\ isActionTaken = FALSE
    /\ responseText = <<>>
    /\ result = NoResult
    /\ log = <<>>
    /\ sends = 0
    /\ handling = NoHandling
    /\ tasks = <<>>
    /\ bookOf = 0
    /\ overlap = <<>>
    /\ currentChapter = -1
    /\ pdf = NoExport
    /\ InitKey
    /\ InitProj

NextLibrary ==
    \/ HandleSaveProject
    \/ \E k \in DOMAIN savedProjects : LoadProject(k)
    \/ \E k \in DOMAIN savedProjects : DeleteProject(k)
    \/ \E mode \in AppModes : SetCurrentMode(mode)
    \/ Tick
    \/ Reload

SpecLibrary == InitLibrary /\ [][NextLibrary]_vars

(* ------------------------------ properties ----------------------------- *)

FailsUpTo(events, k) == Cardinality({ j \in 1..k : events[j].e = "fail" })
ReqCount(events) == Cardinality({ j \in DOMAIN events : events[j].e = "req" })
Malformed(k) == log[k].e = "fail" /\ log[k].kind = "malformed"
RateLimited(k) == log[k].e = "fail" /\ log[k].kind = "rate"
NoRequestAfter(k) == \A m \in DOMAIN log : m > k => log[m].e # "req"

\* C1: when the request for a chapter fails, the content delivered through
\* onChapterEdited for that chapter is a placeholder that contains the outline
\* the model supplied for that chapter in the create_ebook arguments.
C1_PlaceholderKeepsOutline ==
    \A t \in DOMAIN tasks :
        LET ev == tasks[t].log
        IN (ev # <<>> /\ ev[1].e = "deliver" /\ ev[1].failed) =>
              \E k \in DOMAIN ev[1].content :
                  ev[1].content[k] = tasks[t].supplied[ev[1].ch + 1]

\* C2: whatever the remote service answers, one invocation of sendMessage
\* issues at most maxAttempts primary requests, and its attempts counter never
\* exceeds maxAttempts.
C2_AtMostMaxAttempts ==
    /\ ReqCount(log) <= 3
    /\ attempts <= 3

\* an invocation that used all its requests and has ended
C2_Witness == Settling /\ ReqCount(log) = 3 /\ attempts = 3

\* C3: a primary request that fails with an error text containing '403' or
\* 'key not valid' ends the invocation at once: the error is rethrown, with no
\* wait and no further request.
C3_AuthErrorEndsAtOnce ==
    \A k \in DOMAIN log :
        (log[k].e = "fail"
            /\ (Includes(log[k].err, "403") \/ Includes(log[k].err, "key not valid")))
        => /\ Len(log) = k + 1
           /\ log[k + 1] = Throw(log[k].err)
           /\ pc = "rejected"

\* C4 as the specification states it: after a malformed function call or an
\* empty response there is exactly one retry, with the rephrasing instruction
\* appended; when the retry fails the same way no further request is issued.
C4_SingleRetry ==
    \A k \in DOMAIN log :
        Malformed(k) =>
            IF \E j \in 1..(k - 1) : Malformed(j)
            THEN NoRequestAfter(k)
            ELSE \A m \in DOMAIN log :
                    (m > k /\ log[m].e = "req" /\ ReqCount(SubSeq(log, k, m)) = 1)
                    => log[m].msg = Append(message, RephraseSuffix)

\* C4 as the code has it: a malformed function call or an empty response
\* counts as one attempt; with fewer than three attempts made, a wait of
\* 1500 ms and a retry follow, so that up to two retries are made; after the
\* third attempt no request follows.  The retry carries the rephrasing
\* instruction when it is the first retry of the invocation, and in the
\* revision part_001 whenever it is a retry.
C4_RetriesUpToCap ==
    \A k \in DOMAIN log :
        Malformed(k) =>
            LET n == FailsUpTo(log, k)
            IN /\ k < Len(log)
               /\ IF n >= 3
                  THEN /\ Len(log) = k + 1
                       /\ log[k + 1].e \in {"throw", "return"}
                  ELSE /\ log[k + 1] = Wait(1500)
                       /\ k + 2 <= Len(log) =>
                            /\ log[k + 2].e = "req"
                            /\ log[k + 2].msg =
                                 IF n = 1 \/ revision = "part_001"
                                 THEN Append(message, RephraseSuffix)
                                 ELSE message

\* a third request after two malformed answers
C4_Witness ==
    /\ Len(log) = 7
    /\ Malformed(2) /\ Malformed(5)
    /\ log[4].msg = Append(message, RephraseSuffix)
    /\ log[7].e = "req"

\* C9: within one invocation every failure with '429' or '503' in its text is
\* followed by a wait of 2000 ms times the attempt number and counts as one
\* attempt, the waits of successive rate-limit retries grow strictly, and
\* after the third attempt no request is issued.
C9_RateLimitBackoff ==
    /\ \A k \in DOMAIN log :
          RateLimited(k) =>
             /\ k < Len(log)
             /\ log[k + 1] = Wait(2000 * FailsUpTo(log, k))
             /\ \A j \in 1..(k - 1) :
                   RateLimited(j) => log[j + 1].ms < log[k + 1].ms
             /\ FailsUpTo(log, k) >= 3 => NoRequestAfter(k)
    /\ pc = "primary" => attempts = FailsUpTo(log, Len(log))

\* three rate-limited attempts: the invocation is in its last wait
C9_Witness ==
    /\ pc = "waitRate"
    /\ Len(log) = 9
    /\ RateLimited(2) /\ RateLimited(5) /\ RateLimited(8)
    /\ log[3].ms = 2000 /\ log[6].ms = 4000 /\ log[9].ms = 6000

\* C10: when the remote service rejects a chat request with an error text
\* containing '403', 'key not valid' or 'invalid_api_key', no wait and no
\* further request follow: sendMessage rejects with that error, which makes
\* handleSendMessage open the credential dialog and append the
\* 'Invalid API Key' message.
C10_KeyErrorSurfacesAtOnce ==
    \A k \in DOMAIN log :
        (log[k].e = "fail" /\ IsKeyError(log[k].err))
        => /\ pc = "rejected"
           /\ result.err = log[k].err
           /\ Len(log) = k + 1

\* the step is a call of onChapterEdited by task t
TaskDelivers(t) ==
    /\ tasks'[t].log # <<>>
    /\ tasks'[t].log[1].e = "deliver"
    /\ \/ tasks[t].log = <<>>
       \/ tasks[t].log[1] # tasks'[t].log[1]
       \/ Len(tasks'[t].log) < Len(tasks[t].log)

EditComplete(i) ==
    Message(AI, Text(<<"**Edit Complete:** Chapter ", ToString(i + 1), " updated.">>))

\* C7: the background task of a create_ebook call with n chapters walks them
\* in order: it calls onChapterEdited once for each index 0..n-1, in
\* increasing order, and the request for a chapter is issued only after the
\* update of the chapter before it has been delivered.
C7_SequentialWalk ==
    [][ /\ \A t \in DOMAIN tasks :
              LET a == tasks[t]
                  b == tasks'[t]
              IN IF TaskDelivers(t)
                 THEN /\ a.i < Len(a.args.chapters)
                      /\ b.log[1].ch = a.i
                      /\ b.i = a.i + 1
                      /\ messages' = Append(messages, EditComplete(a.i))
                 ELSE b.i = a.i
        /\ \A t \in DOMAIN tasks' :
              LET b == tasks'[t]
              IN /\ t \notin DOMAIN tasks => b.i = 0
                 /\ (b.st = "done") = (b.i = Len(b.args.chapters))
                 /\ \A k \in DOMAIN b.log :
                       b.log[k].e = "req" => b.log[k].ch = b.i
                 /\ (b.log # <<>> /\ b.log[1].e = "deliver")
                       => b.log[1].ch = b.i - 1
      ]_vars

\* a task that has delivered both chapters of its book
C7_Witness ==
    \E t \in DOMAIN tasks :
        /\ Len(tasks[t].args.chapters) = 2
        /\ tasks[t].st = "done"
        /\ tasks[t].log = <<TDeliver(1, <<"prose">>, FALSE)>>
        /\ Last(messages) = EditComplete(1)

\* what a task did for the chapter it is at
ChapterEvents(task) ==
    IF task.log # <<>> /\ task.log[1].e = "deliver" THEN Tail(task.log)
    ELSE task.log

\* C8 as the specification states it: one request per chapter, and a delay of
\* 2000 ms before the request of every chapter but the first.
C8_OneRequestPerChapter ==
    \A t \in DOMAIN tasks :
        LET body == ChapterEvents(tasks[t])
        IN /\ ReqCount(body) <= 1
           /\ body # <<>> =>
                 body[1] = IF tasks[t].i = 0 THEN TReq(0)
                           ELSE TWait(tasks[t].i, 2000)

\* C8 as the code has it: a delay of 2000 ms precedes the first request of
\* every chapter but the first; part_000 issues at most one request per
\* chapter, part_001 at most three, each further one after a wait of
\* 2000 * 2^k ms (k the retries made so far).
C8_DelayThenBoundedRequests ==
    \A t \in DOMAIN tasks :
        LET body == ChapterEvents(tasks[t])
            first == IF tasks[t].i = 0 THEN 1 ELSE 2
        IN /\ ReqCount(body) <= IF revision = "part_001" THEN 3 ELSE 1
           /\ body # <<>> =>
                 body[1] = IF tasks[t].i = 0 THEN TReq(0)
                           ELSE TWait(tasks[t].i, 2000)
           /\ \A k \in DOMAIN body :
                 /\ (body[k].e = "req") = (k >= first /\ (k - first) % 2 = 0)
                 /\ (body[k].e = "wait" /\ k > first)
                       => body[k].ms = 2000 * Pow2((k - first - 1) \div 2)

\* the second chapter of a book at its third request
C8_Witness ==
    \E t \in DOMAIN tasks :
        /\ tasks[t].i = 1
        /\ tasks[t].st = "request"
        /\ ReqCount(ChapterEvents(tasks[t])) = 3
        /\ ChapterEvents(tasks[t])[1] = TWait(1, 2000)

\* k is the text `typed` without the blanks around it, and is not empty
IsTrimmedOf(k, typed) ==
    /\ k # <<>>
    /\ Head(k) # " "
    /\ Last(k) # " "
    /\ \E a \in 0..Len(typed) :
          /\ a + Len(k) <= Len(typed)
          /\ SubSeq(typed, a + 1, a + Len(k)) = k
          /\ \A j \in DOMAIN typed :
                (j <= a \/ j > a + Len(k)) => typed[j] = " "

\* the validation request succeeded, or failed with '429' or 'quota'
SucceededOrRateLimited(v) ==
    v.err = NoError \/ "429" \in v.err.has \/ "quota" \in v.err.has

NonEmptyKey(k) == k # <<>>

\* C5: when the validation request of the credential dialog succeeds or fails
\* with a rate-limit error, the status becomes 'valid' and onSave is called
\* (by the timer then set) with the trimmed key, which becomes the
\* application's credential.
C5_AcceptedKeyIsSaved ==
    [][ /\ (validated' # validated /\ SucceededOrRateLimited(Last(validated')))
            => /\ status' = "valid"
               /\ Len(timers') = Len(timers) + 1
               /\ IsTrimmedOf(Last(timers'), Last(validated').typed)
        /\ Len(timers') < Len(timers)
            => /\ onSaveCalls' = Append(onSaveCalls, Head(timers))
               /\ apiKey' = Head(timers)
        /\ Len(SelectSeq(validated', SucceededOrRateLimited))
             = Len(SelectSeq(onSaveCalls', NonEmptyKey)) + Len(timers')
      ]_vars

\* a key typed with blanks around it, rate-limited at validation, and saved
C5_Witness ==
    /\ \E v \in DOMAIN validated :
          /\ validated[v].typed = <<" ", "j", " ">>
          /\ "429" \in validated[v].err.has
    /\ onSaveCalls # <<>>
    /\ Last(onSaveCalls) = <<"j">>
    /\ apiKey = <<"j">>
    /\ storedKey = <<"j">>
    /\ timers = <<>>

\* C6: loading a saved project, also after the list went through storage
\* and a fresh start, sets the current book and the message list to those
\* that existed when the project was saved.
C6_SaveLoadRoundTrip ==
    loaded # Null =>
        \E k \in DOMAIN snaps :
            /\ snaps[k].id = loaded[1]
            /\ generatedBook = Some(snaps[k].book)
            /\ messages = snaps[k].messages

\* every failure the invocation met is one that sendMessage takes for neither
\* a rate limit nor a rejected key, and there were three of them
ExhaustedByGeneric(events) ==
    /\ \A k \in DOMAIN events :
          events[k].e = "fail" => events[k].kind \in {"malformed", "other"}
    /\ FailsUpTo(events, Len(events)) = 3

\* three such failures end the invocation after three requests, and the step
\* of handleSendMessage that follows appends the one failure message
GenericFailureSurfaced ==
    /\ ExhaustedByGeneric(log') =>
          /\ ReqCount(log') = 3
          /\ pc' \in {"resolved", "rejected"}
          /\ Last(log').e = IF revision = "part_000" THEN "throw" ELSE "return"
    /\ (Settling /\ ExhaustedByGeneric(log)) =>
          /\ pc' = "idle"
          /\ messages' = Append(messages, SurfacedFailure(log[Len(log) - 1].err))
          /\ handling'.replies = 1

\* C11 as the specification states it: a failure that is neither a rate limit
\* nor a rejected key and recurs on every attempt is attempted at most three
\* times, then the invocation stops and exactly one failure message is
\* appended; and no handling of a user message ends without a message of the
\* assistant being appended.
C11_AlwaysAMessage ==
    [][ /\ GenericFailureSurfaced
        /\ (handling'.over /\ Trim(handling'.text) # <<>>)
              => handling'.replies >= 1
      ]_vars

\* C11 as the code has it: the same for the recurring failure (the message is
\* the System Error message in part_000, the fallback reply quoting the last
\* error in part_001); the handling of a user message that is not blank ends
\* with a message of the assistant appended when a credential is set, and with
\* the credential dialog open and nothing appended when none is set.
C11_MessageWhenCredentialSet ==
    [][ /\ GenericFailureSurfaced
        /\ (handling'.over /\ Trim(handling'.text) # <<>>) =>
              IF handling'.apiKey # <<>>
              THEN handling'.replies >= 1
              ELSE /\ handling'.replies = 0
                   /\ handling' # handling =>
                         /\ messages' = messages
                         /\ isKeyModalOpen'
      ]_vars

\* three failed attempts, none a rate limit or a rejected key, have ended an
\* invocation of part_001 with the fallback reply
C11_Witness ==
    /\ revision = "part_001"
    /\ pc = "resolved"
    /\ ExhaustedByGeneric(log)
    /\ ReqCount(log) = 3
    /\ result.text = FallbackText(log[Len(log) - 1].err)
    /\ handling.apiKey # <<>> /\ ~handling.over

\* the records in localStorage 'booksmith_projects'
Stored == IF storage = Null THEN <<>> ELSE storage[1].json

\* a message that reports a failed request: the System Error message of the
\* catch block, or a reply that quotes the error
IsErrorMessage(m) ==
    \/ m.text.quoted # NoError
    \/ (m.text.tokens # <<>> /\ m.text.tokens[1] = "**System Error:** ")

\* a chapter text that reports a failed chapter request
IsFailureContent(content) ==
    /\ content # <<>>
    /\ content[1] \in { Placeholder("")[1], PlaceholderAfterRetries("")[1] }

HoldsError(project) ==
    \/ \E m \in DOMAIN project.messages : IsErrorMessage(project.messages[m])
    \/ \E c \in DOMAIN project.book.chapters :
          IsFailureContent(project.book.chapters[c].content)

\* C12 as the specification states it: no error is ever persisted; what is
\* written to browser storage holds no error message and no error text
\* produced by a failed request, also after the user saves a project following
\* a failed request.
C12_NoErrorStored ==
    /\ \A k \in DOMAIN Stored : ~HoldsError(Stored[k])
    /\ storedKey \in {<<>>, apiKey}

\* C12 as the code has it: the stored credential holds no error text, and
\* every stored project holds the book and the message list (as JSON writes
\* it) of the page at the moment it was saved, error messages and failure
\* placeholders included.
C12_StoredAsSaved ==
    /\ \A k \in DOMAIN Stored :
          \E n \in DOMAIN snaps :
              /\ Stored[k].id = snaps[n].id
              /\ Stored[k].book = snaps[n].book
              /\ Stored[k].messages = Stringify(<<snaps[n]>>).json[1].messages
              /\ HoldsError(Stored[k]) = HoldsError(snaps[n])
    /\ storedKey \in {<<>>, apiKey}

\* a project saved after a failed request is in storage with the failure
\* message and the failure placeholder
C12_Witness ==
    \E k \in DOMAIN Stored :
        /\ \E m \in DOMAIN Stored[k].messages :
              IsErrorMessage(Stored[k].messages[m])
        /\ IsFailureContent(Stored[k].book.chapters[1].content)
        /\ \E n \in DOMAIN snaps : snaps[n].id = Stored[k].id /\ HoldsError(snaps[n])

\* C13: after every save or delete the list stored under
\* 'booksmith_projects' is the saved-project list in memory; a save adds one
\* record at the head, holding the current book, messages and market
\* snapshot; a delete removes the one record the user chose, and the other
\* records keep their content and order.
C13_SaveAndDeleteExact ==
    [][ /\ storage' = Some(Stringify(savedProjects'))
        /\ Len(snaps') > Len(snaps) =>
              /\ Len(savedProjects') = Len(savedProjects) + 1
              /\ Tail(savedProjects') = savedProjects
              /\ Head(savedProjects').book = generatedBook[1]
              /\ Head(savedProjects').messages = messages
              /\ Head(savedProjects').marketData = marketData
        /\ Len(savedProjects') < Len(savedProjects) =>
              \E k \in DOMAIN savedProjects :
                  savedProjects' = Without(savedProjects, k)
      ]_vars

\* C14: once the effect on [apiKey] has run, the credential stored under
\* 'gemini_api_key' is the credential in memory; after the 'Remove API Key'
\* button the stored credential is empty, so that a fresh start, which reads
\* the stored credential, does not restore the removed key.
C14_StoredKeyIsApiKey == storedKey = apiKey

\* C15: a chapter update of the background task of one create_ebook call is
\* applied only to the book that call created: when the current book has been
\* replaced since, by a loaded project or by another create_ebook call, the
\* old task's update changes neither the book nor the message list nor the
\* mode.
C15_UpdatesOwnBookOnly ==
    [][ \A t \in DOMAIN tasks :
           (TaskDelivers(t) /\ bookOf # t) =>
               /\ generatedBook' = generatedBook
               /\ messages' = messages
               /\ currentMode' = currentMode
      ]_vars

\* calls of handleSendMessage that have not ended
Running == (IF pc = "idle" THEN 0 ELSE 1) + Len(overlap)

\* requests out on the chat session
Outstanding == (IF pc \in {"primary", "ack"} THEN 1 ELSE 0) + Len(overlap)

\* C16: at most one user message is being processed at any time:
\* handleSendMessage is never entered, through the chat input, the template
\* buttons or the topic search, while an earlier call has not ended; isLoading
\* is set exactly while a call is running, and the chat session never has two
\* requests out.
C16_OneAtATime ==
    /\ Running <= 1
    /\ isLoading = (Running > 0)
    /\ Outstanding <= 1

IsCallback(ev) == ev.e = "call"
CreatedBook(ev) == ev = Callback("onEBookGenerated")

\* C17: within one invocation of sendMessage, once a callback has been invoked
\* for a response no further primary request is issued, so the callbacks of a
\* response run once and one background task is started for each create_ebook
\* call.
C17_NoRequestAfterCallback ==
    /\ \A k \in DOMAIN log :
          IsCallback(log[k]) => NoRequestAfter(k)
    /\ (\E k \in DOMAIN log : IsCallback(log[k]))
          => /\ pc \in {"ack", "resolved"}
             /\ isActionTaken
             /\ Len(SelectSeq(tasks, LAMBDA task : task.inv = sends))
                  = Len(SelectSeq(log, CreatedBook))

\* a response with two create_ebook calls, accepted at the second request:
\* two callbacks, two tasks
C17_Witness ==
    /\ pc = "resolved"
    /\ ReqCount(log) = 2
    /\ Len(SelectSeq(log, CreatedBook)) = 2
    /\ Len(tasks) = 2

\* C19: when the tool-acknowledgement request fails, with whatever error,
\* sendMessage returns a text that is not empty, without counting an attempt
\* and without another primary request, and what the callbacks have set
\* stays as it is.
C19_AckFailureSwallowed ==
    [][ (pc = "ack" /\ pc' # "ack" /\ Len(log') >= 2
            /\ log'[Len(log') - 1].e = "ackfail")
        => /\ pc' = "resolved"
           /\ result'.err = NoError
           /\ result'.text.tokens # <<>>
           /\ log' = log \o <<log'[Len(log') - 1], Return>>
           /\ attempts' = attempts
           /\ lastError' = lastError
           /\ <<generatedBook, marketData, messages, currentMode, isActionTaken,
                tasks>>' =
              <<generatedBook, marketData, messages, currentMode, isActionTaken,
                tasks>>
      ]_vars

\* the acknowledgement failed with a rate-limit error after a book was
\* created, and the invocation has returned
C19_Witness ==
    /\ pc = "resolved"
    /\ Len(log) >= 2
    /\ log[Len(log) - 1] = AckFail(ErrorText("remote", {"429"}))
    /\ generatedBook # Null
    /\ result.err = NoError

\* C18: the book passed to onEBookGenerated for a create_ebook call has as
\* many chapters as the model supplied, in the same order, each with its title
\* and imageKeyword and with empty content; when the callback has run no
\* chapter has been delivered, and of the chapter requests at most the first
\* is out.
C18_InitialBook ==
    [][ \A t \in DOMAIN tasks' :
           t \notin DOMAIN tasks =>
              LET task == tasks'[t]
                  book == task.args
                  n == Len(task.supplied)
              IN /\ Len(book.chapters) = n
                 /\ \A k \in 1..n :
                       /\ task.supplied[k] = SuppliedChapter(k - 1).outline
                       /\ book.chapters[k] =
                            [title |-> SuppliedChapter(k - 1).title,
                             imageKeyword |-> SuppliedChapter(k - 1).imageKeyword,
                             content |-> <<>>]
                 /\ t = Len(tasks') => generatedBook' = Some(book)
                 /\ \E k \in DOMAIN log' : CreatedBook(log'[k])
                 /\ task.i = 0
                 /\ task.log = IF n = 0 THEN <<>> ELSE <<TReq(0)>>
      ]_vars

\* a book of two chapters has been passed to onEBookGenerated, and the
\* request for its first chapter is out
C18_Witness ==
    /\ generatedBook # Null
    /\ Len(generatedBook[1].chapters) = 2
    /\ \A k \in 1..2 : generatedBook[1].chapters[k].content = <<>>
    /\ generatedBook[1].chapters[2].title = SuppliedChapter(1).title
    /\ Len(tasks) = 1
    /\ tasks[1].log = <<TReq(0)>>
    /\ pc = "ack"

\* the waits that followed the requests for the chapter the task is at
BackoffWaits(task) ==
    LET body == ChapterEvents(task)
        first == IF task.i = 0 THEN 1 ELSE 2
        later == SubSeq(body, first, Len(body))
        waits == SelectSeq(later, LAMBDA ev : ev.e = "wait")
    IN [k \in DOMAIN waits |-> waits[k].ms]

\* no task is under way; a task that has ended stays so and tasks are never
\* removed, so that this holding again and again means every task ends
AllTasksDone == \A t \in DOMAIN tasks : tasks[t].st = "done"

\* C20: the background task always terminates.  Every call of
\* generateChapterContent issues at most three requests; a request is
\* repeated only after a rate-limit error, after waits of 2 s, 4 s and 8 s,
\* and any other error gives the placeholder at once; and, every remote call
\* returning or failing, every task gets to the end of its loop, which is
\* after the update of its last chapter.
C20_TaskTerminates ==
    /\ [](\A t \in DOMAIN tasks :
             /\ ReqCount(ChapterEvents(tasks[t])) <= 3
             /\ BackoffWaits(tasks[t]) \in
                   { <<>>, <<2000>>, <<2000, 4000>>, <<2000, 4000, 8000>> }
             /\ tasks[t].st = "done" =>
                   /\ tasks[t].i = Len(tasks[t].args.chapters)
                   /\ tasks[t].i > 0 =>
                         tasks[t].log = <<tasks[t].log[1]>>
                         /\ tasks[t].log[1].e = "deliver"
                         /\ tasks[t].log[1].ch = tasks[t].i - 1)
    /\ [][ \A t \in DOMAIN tasks :
              (TaskDelivers(t) /\ tasks'[t].log[1].failed) =>
                 IF tasks[t].st = "request"
                 THEN /\ tasks'[t].log[1].content[1] = Placeholder("")[1]
                      /\ Last(tasks[t].log).e = "req"
                 ELSE /\ tasks'[t].log[1].content[1] = PlaceholderAfterRetries("")[1]
                      /\ BackoffWaits(tasks[t]) = <<2000, 4000, 8000>>
                      /\ ReqCount(ChapterEvents(tasks[t])) = 3
         ]_vars
    /\ []<>AllTasksDone

\* a task has ended after three rate-limited requests for its last chapter
C20_Witness ==
    \E t \in DOMAIN tasks :
        /\ tasks[t].st = "done"
        /\ tasks[t].i = 2
        /\ tasks[t].log[1].failed
        /\ tasks[t].log[1].content[1] = PlaceholderAfterRetries("")[1]

\* C21: in every reachable state, preview mode implies a current book: no
\* sequence of user actions and callbacks, an edit_chapter call with no book
\* created included, puts the page in preview mode without a book.
C21_PreviewHasBook == currentMode = "preview" => generatedBook # Null

\* the step reports the update of chapter i (0-based)
ReportsEdit(i) == messages' = Append(messages, EditComplete(i))

\* C23: the chapter-edit callback changes only the content of the chapter at
\* the given index of the current book; the chapter's title and keyword, the
\* other chapters, their number and the book's title and format stay; with no
\* current book or an index out of range the book stays as it is and no
\* 'Edit Complete' message is reported.
C23_EditChangesOneChapter ==
    [][ \A i \in 0..MaxChapters :
           ReportsEdit(i) =>
              /\ generatedBook # Null
              /\ i + 1 \in DOMAIN generatedBook[1].chapters
              /\ generatedBook'[1].title = generatedBook[1].title
              /\ generatedBook'[1].format = generatedBook[1].format
              /\ DOMAIN generatedBook'[1].chapters = DOMAIN generatedBook[1].chapters
              /\ \A k \in DOMAIN generatedBook[1].chapters :
                    LET old == generatedBook[1].chapters[k]
                        new == generatedBook'[1].chapters[k]
                    IN /\ new.title = old.title
                       /\ new.imageKeyword = old.imageKeyword
                       /\ k # i + 1 => new.content = old.content
      ]_vars


(* ------------------------------ EBookReader ---------------------------- *)

\* nextChapter: nothing happens on the last chapter
NextChapter ==
    /\ Mounted
    /\ currentChapter' =
          IF currentChapter < Len(generatedBook[1].chapters) - 1
          THEN currentChapter + 1 ELSE currentChapter
    /\ UNCHANGED <<revision, clock, appVars, sendVars, tasks, keyVars,
                   projVars, raceVars, pdf>>

\* prevChapter: nothing happens on the cover
PrevChapter ==
    /\ Mounted
    /\ currentChapter' =
          IF currentChapter > -1 THEN currentChapter - 1 ELSE currentChapter
    /\ UNCHANGED <<revision, clock, appVars, sendVars, tasks, keyVars,
                   projVars, raceVars, pdf>>

\* the table of contents: the Cover button and one button per chapter
SelectChapter(idx) ==
    /\ Mounted
    /\ idx \in -1 .. Len(generatedBook[1].chapters) - 1
    /\ currentChapter' = idx
    /\ UNCHANGED <<revision, clock, appVars, sendVars, tasks, keyVars,
                   projVars, raceVars, pdf>>

\* a conversation that produced a book of two chapters, both written
TwoChaptersArrived ==
    LET asked == [book |-> Null, market |-> Null, mode |-> "chat", action |-> FALSE,
                  msgs |-> <<WelcomeMessage, Message(USER, Text(<<"h", "i">>))>>]
        created == onEBookGenerated(asked, BookData(CreateEBook(2).args))
        replied == [created EXCEPT !.msgs = Append(@, Message(AI, Text(SuccessText)))]
    IN onChapterEdited(onChapterEdited(replied, 0, <<"prose">>), 1, <<"prose">>)

\* the page holds a book of two chapters, its background generation over, and
\* the user is back in the chat with the request of a second message out
InitReader ==
    /\ revision \in Revisions
    /\ clock = 0
    /\ apiKey = <<"k">>
    /\ geminiServiceRef = TRUE
    /\ isKeyModalOpen = FALSE
    /\ isLoading = TRUE
    /\ currentMode = "chat"
    /\ generatedBook = TwoChaptersArrived.book
    /\ marketData = TwoChaptersArrived.market
    /\ messages = Append(TwoChaptersArrived.msgs, Message(USER, Text(<<"h", "i">>)))
    /\ savedProjects = <<>>
    /\ pc = "primary"
    /\ message = <<"h", "i">>
    /\ attempts = 0
    /\ lastError = NoError
    /\ chat = TRUE
    /\ isActionTaken = FALSE
    /\ responseText = <<>>
    /\ result = NoResult
    /\ log = <<Req(FinalMessage(<<"h", "i">>, 0))>>
    /\ sends = 2
    /\ handling = [text |-> <<"h", "i">>, apiKey |-> apiKey, over |-> FALSE,
                   replies |-> 0]
    /\ tasks = <<>>
    /\ bookOf = 0
    /\ overlap = <<>>
    /\ currentChapter = -1
    /\ pdf = NoExport
    /\ InitKey
    /\ InitProj

NextReader ==
    \/ \E mode \in AppModes : SetCurrentMode(mode)
    \/ NextChapter
    \/ PrevChapter
    \/ \E idx \in -1 .. MaxChapters - 1 : SelectChapter(idx)
    \/ \E r \in ChatOutcomes : PrimaryReturns(r)
    \/ WaitEnds
    \/ \E r \in AckOutcomes : AckReturns(r)
    \/ Settle
    \/ \E t \in DOMAIN tasks, r \in ChapterOutcomes : ChapterReturns(t, r)
    \/ \E t \in DOMAIN tasks : ChapterWaitEnds(t)

SpecReader == InitReader /\ [][NextReader]_vars

\* C22: while the reader is shown, its page is the cover or the index of a
\* chapter of the book it displays; this covers a book that is replaced by a
\* shorter one while the reader is open.
C22_PageIsValid ==
    Mounted => currentChapter \in -1 .. Len(generatedBook[1].chapters) - 1


\* the step is the delayed save of an accepted key
DelayedSave ==
    /\ timers # <<>>
    /\ timers' = Tail(timers)
    /\ onSaveCalls' = Append(onSaveCalls, Head(timers))

\* C24: a delayed save never saves a key whose validation was started before
\* the user last closed the dialog or removed the key, and never saves a key
\* other than the last one submitted when another validation was started
\* while its own was in flight.
C24_NoAbandonedSave ==
    [][ DelayedSave =>
           LET mine == Head(submissions.t)
           IN /\ ~mine.stale
              /\ mine.later # Null => Head(timers) = mine.later[1]
      ]_vars


\* the text is empty or whitespace only
Blank(k) == \A j \in DOMAIN k : k[j] = " "

\* C25: submitting an empty or whitespace-only key sets the status 'error' and
\* starts no validation request; a validation that fails with an error other
\* than a rate limit sets the status 'error', sets no timer, calls no onSave
\* and leaves the application's credential as it was; and the credential only
\* ever changes to a key whose validation succeeded or hit a rate limit.
C25_NoKeyWithoutPassingCheck ==
    [][ /\ (ValidateAndSave /\ Blank(key))
            => /\ status' = "error"
               /\ UNCHANGED <<validations, timers, onSaveCalls, apiKey>>
        /\ Len(validations') > Len(validations) => ~Blank(key)
        /\ (validated' # validated /\ ~SucceededOrRateLimited(Last(validated')))
            => /\ status' = "error"
               /\ UNCHANGED <<timers, onSaveCalls, apiKey, geminiServiceRef,
                              storedKey>>
        /\ (apiKey' # apiKey /\ apiKey' # <<>>)
            => \E v \in DOMAIN validated :
                  /\ SucceededOrRateLimited(validated[v])
                  /\ IsTrimmedOf(apiKey', validated[v].typed)
      ]_vars

\* a key was rejected with a 403, then a blank key was submitted: no key has
\* been saved
C25_Witness ==
    /\ \E v \in DOMAIN validated :
          /\ validated[v].typed = <<"k">>
          /\ "403" \in validated[v].err.has
    /\ Blank(key)
    /\ status = "error"
    /\ errorMessage = "Please enter an API key."
    /\ validations = <<>>
    /\ timers = <<>>
    /\ onSaveCalls = <<>>
    /\ apiKey = <<>>


(* ----------------------- EBookReader: downloadPDF ---------------------- *)

\* the page geometry, in millimetres: jsPDF's default page is A4 upright
pageHeight == 297
margin == 20
lineHeight == 7

\* lengths are counted in half millimetres, lineHeight / 2 being 3.5
Units(mm) == 2 * mm
HalfLine == Units(lineHeight) \div 2

\* what a chapter's text comes to: its paragraphs after the replacements and
\* split('\n'), each the number of lines splitTextToSize cuts it into; 0 is a
\* paragraph that is blank.  split gives at least one paragraph
MaxParagraphs == 2
MaxLines == 34
LineCounts == {0, 1, MaxLines}
Paragraphs ==
    UNION { [1..n -> LineCounts] : n \in 1..MaxParagraphs }

\* the document after the title page, before the loop over the chapters.
\* lines is the history of the doc.text calls of the chapter bodies: the
\* chapter, the page, the position y, and the cursor the line found; starts
\* is the history of the chapters begun: the page and the cursor of each
ExportOf(chapters) ==
    [st |-> "chapters", chapters |-> chapters, index |-> 0, para |-> 0,
     line |-> 0, cursorY |-> 0, pages |-> 1, lines |-> <<>>, starts |-> <<>>]

\* the position is past the last line of the page
PastPageEndOnly(cursorY) == cursorY > Units(pageHeight)

\* if (cursorY > pageHeight - margin)
PastBottomMargin(cursorY) == cursorY > Units(pageHeight) - Units(margin)

\* the paragraph after pdf.para, or the end of the chapter
NextParagraph(d) ==
    IF d.para < Len(d.chapters[d.index])
    THEN [d EXCEPT !.para = @ + 1, !.line = 0]
    ELSE [d EXCEPT !.st = "chapters"]

\* book.chapters.forEach: doc.addPage(), the chapter title, the cursor
BeginChapter ==
    /\ pdf.st = "chapters"
    /\ pdf.index < Len(pdf.chapters)
    /\ LET cursorY == Units(margin) + Units(30)
           d == [pdf EXCEPT !.index = @ + 1, !.pages = @ + 1,
                            !.cursorY = cursorY,
                            !.para = 0, !.st = "body",
                            !.starts = Append(@, [before |-> pdf.pages,
                                                  page |-> pdf.pages + 1,
                                                  cursorY |-> cursorY])]
       IN pdf' = NextParagraph(d)
    /\ UNCHANGED <<revision, clock, appVars, sendVars, tasks, keyVars,
                   projVars, raceVars, currentChapter>>

\* if (!para.trim()) { cursorY += lineHeight / 2; return; }
BlankParagraph ==
    /\ pdf.st = "body"
    /\ pdf.chapters[pdf.index][pdf.para] = 0
    /\ pdf' = NextParagraph([pdf EXCEPT !.cursorY = @ + HalfLine])
    /\ UNCHANGED <<revision, clock, appVars, sendVars, tasks, keyVars,
                   projVars, raceVars, currentChapter>>

\* lines.forEach: one line of the paragraph, and after the last one the
\* half line that ends the paragraph
DrawLine ==
    /\ pdf.st = "body"
    /\ pdf.chapters[pdf.index][pdf.para] > 0
    /\ LET break == PastBottomMargin(pdf.cursorY)
           y == IF break THEN Units(margin) ELSE pdf.cursorY
           page == IF break THEN pdf.pages + 1 ELSE pdf.pages
           drawn == [pdf EXCEPT
                       !.pages = page,
                       !.lines = Append(@, [chapter |-> pdf.index,
                                            page |-> page, y |-> y,
                                            found |-> pdf.cursorY,
                                            first |-> pdf.para = 1
                                                      /\ pdf.line = 0]),
                       !.line = @ + 1,
                       !.cursorY = y + Units(lineHeight)]
       IN pdf' = IF drawn.line < pdf.chapters[pdf.index][pdf.para]
                 THEN drawn
                 ELSE NextParagraph([drawn EXCEPT !.cursorY = @ + HalfLine])
    /\ UNCHANGED <<revision, clock, appVars, sendVars, tasks, keyVars,
                   projVars, raceVars, currentChapter>>

\* doc.save(...)
SavePDF ==
    /\ pdf.st = "chapters"
    /\ pdf.index = Len(pdf.chapters)
    /\ pdf' = [pdf EXCEPT !.st = "saved"]
    /\ UNCHANGED <<revision, clock, appVars, sendVars, tasks, keyVars,
                   projVars, raceVars, currentChapter>>

\* the reader shows a book of two chapters and Download PDF has been
\* pressed; the texts of the chapters are any of Paragraphs
InitPdf ==
    /\ revision \in Revisions
    /\ clock = 0
    /\ apiKey = <<"k">>
    /\ geminiServiceRef = TRUE
    /\ isKeyModalOpen = FALSE
    /\ isLoading = FALSE
    /\ currentMode = TwoChaptersArrived.mode
    /\ generatedBook = TwoChaptersArrived.book
    /\ marketData = TwoChaptersArrived.market
    /\ messages = TwoChaptersArrived.msgs
    /\ savedProjects = <<>>
    /\ pc = "idle"
    /\ message = <<>>
    /\ attempts = 0
    /\ lastError = NoError
    /\ chat = TRUE
    /\ isActionTaken = FALSE
    /\ responseText = <<>>
    /\ result = NoResult
    /\ log = <<>>
    /\ sends = 1
    /\ handling = NoHandling
    /\ tasks = <<>>
    /\ bookOf = 0
    /\ overlap = <<>>
    /\ currentChapter = -1
    /\ pdf \in { ExportOf(chapters) :
                   chapters \in [DOMAIN generatedBook[1].chapters -> Paragraphs] }
    /\ InitKey
    /\ InitProj

NextPdf ==
    \/ BeginChapter
    \/ BlankParagraph
    \/ DrawLine
    \/ SavePDF

SpecPdf == InitPdf /\ [][NextPdf]_vars

\* C26: every line of a chapter's body is drawn between the top margin and
\* pageHeight - margin; a line that finds the cursor past pageHeight - margin
\* is drawn at the top margin of a page added for it, and any other line where
\* the cursor is, on the page in use; every chapter begins on a page added for
\* it with the cursor of its body at margin + 30, where its first line is
\* drawn when the chapter begins with text; lines are drawn in the order of
\* the book's chapters, no chapter sharing a page with another.
C26_PdfPagination ==
    pdf.st # "idle" =>
     /\ \A j \in DOMAIN pdf.starts :
          /\ pdf.starts[j].page = pdf.starts[j].before + 1
          /\ pdf.starts[j].cursorY = Units(margin) + Units(30)
          /\ \A i \in DOMAIN pdf.lines :
                pdf.lines[i].chapter = j =>
                   pdf.lines[i].page >= pdf.starts[j].page
          /\ \A i \in DOMAIN pdf.lines :
                pdf.lines[i].chapter < j =>
                   pdf.lines[i].page < pdf.starts[j].page
     /\ \A i \in DOMAIN pdf.lines :
          LET l == pdf.lines[i]
              before == IF i = 1 THEN [chapter |-> 0, page |-> 1]
                        ELSE pdf.lines[i - 1]
          IN /\ l.y >= Units(margin)
             /\ l.y <= Units(pageHeight) - Units(margin)
             /\ l.found > Units(pageHeight) - Units(margin)
                   => l.y = Units(margin) /\ l.page = before.page + 1
             /\ l.found <= Units(pageHeight) - Units(margin) => l.y = l.found
             /\ l.first => l.y = Units(margin) + Units(30)
             /\ l.chapter >= before.chapter
             /\ l.page >= before.page
             /\ l.chapter > before.chapter => l.page > before.page
             /\ l.page >= 1 + l.chapter

\* a saved document whose second chapter ran over its first page
C26_Witness ==
    /\ pdf.st = "saved"
    /\ \E i \in DOMAIN pdf.lines :
          /\ pdf.lines[i].chapter = 2
          /\ pdf.lines[i].found > Units(pageHeight) - Units(margin)
          /\ pdf.lines[i].y = Units(margin)
    /\ \E i \in DOMAIN pdf.lines : pdf.lines[i].chapter = 1


\* C27: every remote call returning or failing, an invocation of
\* handleSendMessage that has passed its guards finishes, and when none is
\* running isLoading is false: after a reply, after a thrown error of any
\* class, and when the service was never initialized.  A call with a blank
\* message or without a credential appends no message and issues no request.
C27_InvocationFinishes ==
    /\ [](pc = "idle" => ~isLoading)
    /\ [][ (handling' # handling
              /\ (Trim(handling'.text) = <<>> \/ handling'.apiKey = <<>>))
           => /\ UNCHANGED <<messages, sends, log, pc, isLoading>>
              /\ handling'.over
         ]_vars
    /\ []<>(pc = "idle" /\ ~isLoading)

\* an invocation has ended with the error of a rejected key shown and the
\* credential dialog open
C27_Witness ==
    /\ pc = "idle"
    /\ ~isLoading
    /\ sends = 1
    /\ handling.over
    /\ handling.apiKey # <<>>
    /\ handling.replies = 1
    /\ isKeyModalOpen
    /\ IsErrorMessage(Last(messages))


\* the chat and its background tasks, with the credential dialog's Remove Key
NextRemoval ==
    \/ Next
    \/ OpenKeyModal
    \/ HandleClear

SpecRemoval == Init /\ [][NextRemoval]_vars

\* the step sends a request: the primary request of an attempt, the function
\* responses, or the request of a background task for a chapter
IssuesRequest ==
    \/ pc' \in {"primary", "ack"} /\ pc' # pc
    \/ \E t \in DOMAIN tasks' :
          /\ tasks'[t].st = "request"
          /\ t \in DOMAIN tasks => tasks[t].st # "request"

\* C28: no request is sent while the in-memory credential is empty: once the
\* user has removed the key, the chat, the retries of a request in flight and
\* the background chapter generation send nothing more.
C28_NoRequestWithoutKey ==
    [][ IssuesRequest => apiKey' # <<>> ]_vars


\* C29: the step that loads a project shows that project's book, its chat
\* history and its market snapshot.
C29_LoadedProjectIsShown ==
    [][ loaded' # Null =>
           \E k \in DOMAIN savedProjects :
              /\ savedProjects[k].id = loaded'[1]
              /\ generatedBook' = Some(savedProjects[k].book)
              /\ messages' = savedProjects[k].messages
              /\ marketData' = savedProjects[k].marketData
      ]_vars


\* C30: sendMessage never resolves with an empty string: what it resolves
\* with is the model's text, the fixed success text or the fallback text, so
\* that handleSendMessage never raises 'Empty response from AI'.
C30_NeverResolvesEmpty ==
    /\ pc = "resolved" =>
          /\ result.text.tokens # <<>>
          /\ \/ responseText # <<>> /\ result.text = Text(responseText)
             \/ result.text = Text(SuccessText)
             \/ result.text = FallbackText(lastError)
    /\ \A m \in DOMAIN messages :
          messages[m] # SystemError(EmptyResponseFromAI)

\* the model answered with function calls and no text: sendMessage has
\* resolved with the success text
C30_Witness ==
    /\ pc = "resolved"
    /\ responseText = <<>>
    /\ result.text = Text(SuccessText)
    /\ isActionTaken

====
